---- MODULE Spec2Model ----
(***************************************************************************)
(* Model of the Summarizer pipeline of AppletScriptorium.                  *)
(*                                                                         *)
(* Part 1: article_fetcher.fetch_article and its markdown fallback, run    *)
(* call after call against the two process-wide caches.                    *)
(*                                                                         *)
(* Text is modelled line by line: a document is the sequence of its lines, *)
(* a message is the sequence of the pieces it is formatted from and a URL  *)
(* is the sequence of its segments ("h" stands for scheme, host and path   *)
(* prefix).  str.splitlines / "\n".join are the two directions of that     *)
(* representation.                                                         *)
(***************************************************************************)
EXTENDS Integers, Sequences, FiniteSets, TLC

VARIABLES
    CACHE_HTML,      \* _CACHE_HTML: url -> html text
    CACHE_MARKDOWN,  \* _CACHE_MARKDOWN: url -> cleaned markdown
    outcome,         \* _FETCH_CONTEXT.outcome of the (single) calling thread
    pc,              \* position of the running fetch_article call
    url,             \* argument url of the running / last call
    cfg,             \* argument config of the running / last call
    attempt,         \* index of the retry loop (the "_" of line 101)
    last_error,      \* local last_error
    html_url,        \* local html_url
    trigger,         \* which call site invoked _fetch_markdown_fallback
    exc,             \* the UrlToMdError bound by "except UrlToMdError as exc"
    result,          \* what the last call returned or raised
    calls,           \* outgoing calls of the running call since its last
                     \* direct GET, that GET first
    gets,            \* number of direct GETs (line 104) of the running call
    transport_fails, \* how many of them raised a transport error
    fallback_failed, \* has _fetch_markdown_fallback raised in this call
    ncalls,          \* number of fetch_article calls started
    history          \* url -> content of the last successful cached call
                     \* since the last cache clear

VARIABLES
    links_to_process, \* process_articles: the urls of the links to process
    future,           \* idx -> "queued" | "running" | "finished" | "collected"
    future_result,    \* idx -> what _fetch_and_extract_article returned/raised
    article_data_list,\* articles collected in phase 1
    summaries,        \* result list 1
    failures,         \* result list 2
    phase,            \* "fetch" | "summarize" (at the head of the phase 2
                      \* loop) | "summarizing" (inside a call) | "done"
    pos,              \* phase 2: index into article_data_list
    in_summarize      \* number of _summarize_article calls in progress

VARIABLES
    strategy_counter, \* process_articles: strategy -> tally (a Counter)
    counter_lock,     \* the thread holding counter_lock, 0 when it is free
    tpc,              \* thread -> where it is in _fetch_and_extract_article
    tstrategy,        \* thread -> strategy of the outcome it is recording
    ttmp,             \* thread -> the tally it read for "+= 1"
    refetched,        \* thread -> is the outcome that of the fallback refetch
    recorded          \* number of fetch outcomes obtained by the threads

VARIABLES
    sync_guard,       \* crawlee_fetcher._SYNC_GUARD: the holder, 0 when free
    cpc,              \* thread -> where it is in fetch_with_crawlee_sync
    child,            \* thread -> the python subprocess of subprocess.run
    browser,          \* thread -> the browser processes that child spawned
    cres,             \* thread -> what its last call returned or raised
    ccalls,           \* number of fetch_with_crawlee_sync calls started
    upc,              \* where the caller of fetch_with_urltomd is
    uleader,          \* the url-to-md process (leader of its own session)
    uchrome,          \* the Chrome processes url-to-md spawned
    ures              \* what the last fetch_with_urltomd returned or raised

VARIABLES
    q_content,        \* the text handed to the quality functions
    q_result,         \* what check_content_quality returned for it
    q_metrics         \* what evaluate_quality returned for it

VARIABLES
    x_pc,             \* where the call of extract_content stands
    x_primary,        \* what trafilatura.extract answered
    x_markdown,       \* the markdown the readability fallback produced
    x_out,            \* what extract_content returned
    x_source,         \* the extractor whose text was returned
    x_primary_runs,   \* calls of trafilatura.extract
    x_fallback_runs   \* runs of the readability fallback

VARIABLES
    k_in,             \* the answers of the callees of _fetch_and_extract_article
    k_stripped,       \* what strip_cruft returned for the fetched text
    k_result          \* what _fetch_and_extract_article returned

VARIABLES
    p_raw,            \* the raw output handed to the parser
    p_bullets,        \* what _parse_bullets returned for it
    p_valid           \* what _validate_bullet_structure returned

VARIABLES
    s_env,            \* runner, backend and the settings of config.py
    s_pc,             \* where summarize_article is
    s_attempt,        \* attempt of the retry loop
    s_article_type,   \* article_type
    s_raws,           \* raw_output of every attempt so far
    s_last_validation_error,  \* last_validation_error
    s_calls,          \* the backend calls, subprocess runs and restarts so far
    s_result,         \* what summarize_article returned or raised
    o_attempt         \* attempt of the loop of _run_with_ollama

VARIABLES
    d_files,          \* the files of the corpus directory
    d_saved,          \* the articles given to save_corpus and the metadata it returned
    d_loaded          \* what load_corpus returned or raised

VARIABLES
    m_in,             \* the markdown handed to clean_markdown_content
    m_out,            \* what it returned
    m_again           \* what it returned for its own output

VARIABLES
    r_in,             \* the fetched format, the extracted text, the answer of the providers and the markdown cache
    r_pc,             \* where _fetch_and_extract_article is
    r_cache,          \* _CACHE_MARKDOWN
    r_kept,           \* content_text
    r_refetches,      \* the calls of _fetch_markdown_fallback the worker made
    r_network,        \* the refetch went to the providers
    r_result          \* what _fetch_and_extract_article returned

pipeVars == <<links_to_process, future, future_result, article_data_list,
              summaries, failures, phase, pos, in_summarize>>

fetchVars == <<CACHE_HTML, CACHE_MARKDOWN, outcome, pc, url, cfg, attempt,
               last_error, html_url, trigger, exc, result, calls, gets,
               transport_fails, fallback_failed, ncalls, history>>

tallyVars == <<strategy_counter, counter_lock, tpc, tstrategy, ttmp,
               refetched, recorded>>

browserVars == <<sync_guard, cpc, child, browser, cres, ccalls, upc, uleader,
                 uchrome, ures>>

qualityVars == <<q_content, q_result, q_metrics>>

extractVars ==
    <<x_pc, x_primary, x_markdown, x_out, x_source, x_primary_runs,
      x_fallback_runs>>

cruftVars == <<k_in, k_stripped, k_result>>

parseVars == <<p_raw, p_bullets, p_valid>>

summVars ==
    <<s_env, s_pc, s_attempt, s_article_type, s_raws,
      s_last_validation_error, s_calls, s_result, o_attempt>>

corpusVars == <<d_files, d_saved, d_loaded>>

mdVars == <<m_in, m_out, m_again>>

retryVars == <<r_in, r_pc, r_cache, r_kept, r_refetches, r_network, r_result>>

\* what the steps of one part of the program leave alone
nonFetchVars ==
    <<pipeVars, tallyVars, browserVars, qualityVars,
      extractVars, cruftVars, parseVars, summVars, corpusVars, mdVars, retryVars>>
nonPipeVars ==
    <<fetchVars, tallyVars, browserVars, qualityVars,
      extractVars, cruftVars, parseVars, summVars, corpusVars, mdVars, retryVars>>
nonTallyVars ==
    <<fetchVars, pipeVars, browserVars, qualityVars,
      extractVars, cruftVars, parseVars, summVars, corpusVars, mdVars, retryVars>>
nonBrowserVars ==
    <<fetchVars, pipeVars, tallyVars, qualityVars,
      extractVars, cruftVars, parseVars, summVars, corpusVars, mdVars, retryVars>>
nonQualityVars ==
    <<fetchVars, pipeVars, tallyVars, browserVars,
      extractVars, cruftVars, parseVars, summVars, corpusVars, mdVars, retryVars>>
nonExtractVars ==
    <<fetchVars, pipeVars, tallyVars, browserVars,
      qualityVars, cruftVars, parseVars, summVars, corpusVars, mdVars, retryVars>>
nonCruftVars ==
    <<fetchVars, pipeVars, tallyVars, browserVars,
      qualityVars, extractVars, parseVars, summVars, corpusVars, mdVars, retryVars>>
nonParseVars ==
    <<fetchVars, pipeVars, tallyVars, browserVars,
      qualityVars, extractVars, cruftVars, summVars, corpusVars, mdVars, retryVars>>
nonSummVars ==
    <<fetchVars, pipeVars, tallyVars, browserVars,
      qualityVars, extractVars, cruftVars, parseVars, corpusVars, mdVars, retryVars>>
nonCorpusVars ==
    <<fetchVars, pipeVars, tallyVars, browserVars,
      qualityVars, extractVars, cruftVars, parseVars, summVars, mdVars, retryVars>>
nonMdVars ==
    <<fetchVars, pipeVars, tallyVars, browserVars,
      qualityVars, extractVars, cruftVars, parseVars, summVars, corpusVars, retryVars>>
nonRetryVars ==
    <<fetchVars, pipeVars, tallyVars, browserVars,
      qualityVars, extractVars, cruftVars, parseVars, summVars, corpusVars, mdVars>>

-----------------------------------------------------------------------------
(* Bounds of the model *)

MaxRetriesBound == 1
MaxCalls == 2
MaxFairCalls == 1
MaxLinks == 2
MaxPoolLinks == 6
MaxThreads == 2
MaxCrawlers == 2
MaxCrawlCalls == 3
MaxSegs == 2
MaxExtractSegs == 2
MaxCruftLines == 2
MaxRawParts == 3

-----------------------------------------------------------------------------
(* Program constants *)

HTTP_TIMEOUT == 10
URLTOMD_TIMEOUT == 10
JINA_TIMEOUT == 30

-----------------------------------------------------------------------------
(* Generic helpers *)

Last(s) == s[Len(s)]

Range(s) == {s[i] : i \in 1..Len(s)}

\* s[i:] with a 1-based i

\* "piece in message" for a message kept as the sequence of its pieces
Contains(msg, piece) ==
    \E i \in 1..(Len(msg) - Len(piece) + 1) :
        SubSeq(msg, i, i + Len(piece) - 1) = piece

EmptyMap == [x \in {} |-> <<>>]

MapSet(m, k, v) == [x \in (DOMAIN m) \cup {k} |-> IF x = k THEN v ELSE m[x]]

-----------------------------------------------------------------------------
(* URLs *)

URLS == { <<"h">>, <<"h", ".pdf">>, <<"h", "/epub">> }

\* str.lower() on one segment
Lower(seg) == IF seg = ".PDF" THEN ".pdf" ELSE seg

\* url.lower().endswith('.pdf') or '.pdf?' in url.lower()
IsPdfUrl(u) ==
    \/ Len(u) > 0 /\ Lower(Last(u)) = ".pdf"
    \/ \E i \in 1..(Len(u) - 1) : Lower(u[i]) = ".pdf" /\ u[i + 1] = "?q"

\* url.replace('.pdf?', '?').replace('.pdf', ''): both replacements are case
\* sensitive and together drop every lower-case ".pdf"
StripPdf(u) == SelectSeq(u, LAMBDA seg : seg # ".pdf")

\* HtmlUrl without its "/epub" branch
HtmlUrl_NoEpub(u) ==
    IF IsPdfUrl(u) THEN StripPdf(u) ELSE <<>>

\* html_url of lines 112-119; <<>> is None / the empty string (both falsy)
HtmlUrl(u) ==
    IF IsPdfUrl(u) THEN StripPdf(u)
    ELSE IF Len(u) > 0 /\ Last(u) = "/epub" THEN SubSeq(u, 1, Len(u) - 1)
    ELSE <<>>

-----------------------------------------------------------------------------
(* Lines of markdown *)

Strip(line) ==
    CASE line = "text "               -> "text"
      [] line = "  * [5 x"            -> "* [5 x"
      [] line = " "                   -> ""
      [] line = " https://doi.org/x"  -> "https://doi.org/x"
      [] OTHER                        -> line

Rstrip(line) ==
    CASE line = "text " -> "text"
      [] line = " "     -> ""
      [] OTHER          -> line

\* _SECTION_PATTERNS: ^\s*\*\s+\[\+?\d  and  ^\s*##\s+more\b (ignore case)
MatchesSectionPattern(line) ==
    line \in {"* [+1 555", "## More news", "  * [5 x", "## more"}

\* _CRUFT_PATTERNS, matched against the stripped line
MatchesCruftPattern(stripped) ==
    stripped \in { "[Google Scholar](https://scholar.google.com/x)",
                   "<https://a.example>",
                   "1. Ref [Google Scholar]",
                   "https://doi.org/x" }

-----------------------------------------------------------------------------
(* markdown_cleanup.clean_markdown_content *)

\* first loop (lines 24-48): drop the sections, right-trim what is kept
RECURSIVE CleanLoop(_, _, _, _, _)
CleanLoop(lines, i, cleaned, removed_sections, skip_section) ==
    IF i > Len(lines)
    THEN [cleaned |-> cleaned, removed |-> removed_sections]
    ELSE LET line == lines[i]
             stripped == Strip(line)
         IN IF stripped = ""
            THEN CleanLoop(lines, i + 1, Append(cleaned, ""),
                           removed_sections, FALSE)
            ELSE IF MatchesSectionPattern(line)
            THEN CleanLoop(lines, i + 1, cleaned,
                           Append(removed_sections, stripped), TRUE)
            ELSE IF skip_section
            THEN CleanLoop(lines, i + 1, cleaned,
                           Append(removed_sections, stripped), TRUE)
            ELSE CleanLoop(lines, i + 1, Append(cleaned, Rstrip(line)),
                           removed_sections, FALSE)

\* second loop (lines 50-59): at most one blank line in a row
RECURSIVE CollapseBlank(_, _, _, _)
CollapseBlank(cleaned, i, blank_streak, normalized) ==
    IF i > Len(cleaned)
    THEN normalized
    ELSE LET streak == IF Strip(cleaned[i]) = "" THEN blank_streak + 1 ELSE 0
         IN CollapseBlank(cleaned, i + 1, streak,
                          IF streak < 2 THEN Append(normalized, cleaned[i])
                                        ELSE normalized)

\* lines 62-65
RECURSIVE TrimBlank(_)
TrimBlank(normalized) ==
    IF normalized # <<>> /\ Strip(normalized[1]) = ""
    THEN TrimBlank(Tail(normalized))
    ELSE IF normalized # <<>> /\ Strip(Last(normalized)) = ""
    THEN TrimBlank(SubSeq(normalized, 1, Len(normalized) - 1))
    ELSE normalized

RECURSIVE SplitLines(_)
\* text.splitlines(), which also breaks a line at "\r" (a final line
\* terminator adds no line, and a text is given here without one)
SplitLines(content) ==
    IF content = <<>> THEN <<>>
    ELSE (IF content[1] = "text\rtext" THEN <<"text", "text">>
          ELSE <<content[1]>>) \o SplitLines(Tail(content))

\* the cleaner without its second loop
clean_markdown_content_Uncollapsed(markdown) ==
    LET pass == CleanLoop(SplitLines(markdown), 1, <<>>, <<>>, FALSE)
    IN [cleaned |-> TrimBlank(pass.cleaned), removed |-> pass.removed]

clean_markdown_content(markdown) ==
    LET pass == CleanLoop(SplitLines(markdown), 1, <<>>, <<>>, FALSE)
    IN [cleaned |-> TrimBlank(CollapseBlank(pass.cleaned, 1, 0, <<>>)),
        removed |-> pass.removed]

(* content_cleaner.strip_cruft *)
strip_cruft(markdown) ==
    SelectSeq(SplitLines(markdown),
              LAMBDA line : ~MatchesCruftPattern(Strip(line)))

\* what the two markdown providers can answer: stripped, non-empty text
MdDocs == { <<"text", "https://doi.org/x">>,
            <<"## More news", "text", "", "text ">>,
            <<"* [+1 555">> }

-----------------------------------------------------------------------------
(* Exceptions *)

\* the classes of an exception type, most specific first
Mro(type) ==
    CASE type = "HTTPStatusError" -> {"HTTPStatusError", "HTTPError"}
      [] type = "RequestError"    -> {"RequestError", "HTTPError"}
      [] type = "ReadTimeout"     -> {"ReadTimeout", "TimeoutException",
                                      "TransportError", "RequestError",
                                      "HTTPError"}
      [] type = "FetchError"      -> {"FetchError", "RuntimeError"}
      [] type = "UrlToMdError"    -> {"UrlToMdError", "RuntimeError"}
      [] type = "JinaFetchError"  -> {"JinaFetchError", "RuntimeError"}
      [] OTHER                    -> {type}

\* does "except <classes>" catch e
Catches(classes, e) == Mro(e.type) \cap classes # {}

\* None, and str(None)
NoError == [type |-> "NoneType", msg |-> <<"None">>]

Str(e) == e.msg

FetchError(u, message) ==
    [type |-> "FetchError",
     msg  |-> <<"Failed to fetch ">> \o u \o <<": ">> \o message]

UrlToMdError(u, message) ==
    [type |-> "UrlToMdError",
     msg  |-> <<"url-to-md failed for ">> \o u \o <<": ">> \o message]

JinaFetchError(u, message) ==
    [type |-> "JinaFetchError",
     msg  |-> <<"Jina AI failed for ">> \o u \o <<": ">> \o message]

\* the message of line 179
ExhaustedMessage(le) ==
    <<"exhausted retries (last error: ">> \o Str(le) \o <<")">>

\* FallbackMessage that drops the url-to-md part
FallbackMessage_JinaOnly(e, jina_exc) ==
    <<"fallback failed (jina: ">> \o Str(jina_exc) \o <<")">>

\* the message of line 204
FallbackMessage(e, jina_exc) ==
    <<"fallback failed (url-to-md: ">> \o Str(e) \o <<"; jina: ">>
        \o Str(jina_exc) \o <<")">>

-----------------------------------------------------------------------------
(* article_fetcher: data *)

FetchConfigs ==
    [timeout : {HTTP_TIMEOUT}, max_retries : 0..MaxRetriesBound,
     allow_cache : BOOLEAN]

FetchOutcome(content, strategy, format, duration, removed_sections) ==
    [content |-> content, strategy |-> strategy, format |-> format,
     duration |-> duration, removed_sections |-> removed_sections]

\* get_last_fetch_outcome() before any fetch on the thread
NoOutcome == FetchOutcome(<<>>, "None", "None", 0, <<>>)

NoResult == [raised |-> FALSE, content |-> <<>>, error |-> NoError]

\* one entry of the log of outgoing calls
Call(op, target, timeout, res, reason, text) ==
    [op |-> op, target |-> target, timeout |-> timeout, res |-> res,
     reason |-> reason, text |-> text]

\* perf_counter() - start of a call that went to the network: some positive
\* time, whatever the calls in log
Elapsed(log) == 1

\* what httpx.get + raise_for_status can do for the article URL
HtmlBodies == { <<>>, <<"<html>ok</html>">> }

ContentTypes == {"text/html", "application/pdf", "application/epub+zip",
                 "application/octet-stream"}

ErrorStatuses == {"403", "429", "500", "503"}

TransportErrors == { [type |-> "ReadTimeout", msg |-> <<"timed out">>] }

GetResults ==
    [kind : {"raise"}, exc : TransportErrors]
    \cup [kind : {"ok"}, content_type : {"text/html"}, text : HtmlBodies]
    \cup [kind : {"ok"}, content_type : ContentTypes \ {"text/html"},
          text : {<<"%PDF">>}]
    \cup [kind : {"status"}, status : ErrorStatuses, text : {<<"denied">>}]

\* any(binary_type in content_type for binary_type in binary_types)
IsBinary(content_type) ==
    content_type \in {"application/pdf", "application/epub+zip",
                      "application/zip", "application/octet-stream"}

\* 'html' in html_content_type
IsHtmlType(content_type) == content_type \in {"text/html"}

\* status in {403, 429, 503}
FallbackStatuses == {"403", "429", "503"}

\* CacheHit written as a truthiness test ("if cached:")
CacheHit_Truthy(cache, u) == u \in DOMAIN cache /\ cache[u] # <<>>

\* _CACHE_HTML.get(url) is not None / _CACHE_MARKDOWN.get(url) is not None
CacheHit(cache, u) == u \in DOMAIN cache

\* LoopCount with one iteration too many
LoopCount_OffByOne(c) == c.max_retries + 2

\* range(cfg.max_retries + 1)
LoopCount(c) == c.max_retries + 1

Terminal == {"idle", "returned", "raised"}

-----------------------------------------------------------------------------
(* article_fetcher: the ways a step of fetch_article ends *)

\* return content: the outcome is published, the caches are written as asked
Return_(u, c, content, oc, htmlCache, mdCache) ==
    /\ pc' = "returned"
    /\ result' = [raised |-> FALSE, content |-> content, error |-> NoError]
    /\ outcome' = oc
    /\ CACHE_HTML' = htmlCache
    /\ CACHE_MARKDOWN' = mdCache
    /\ history' = IF c.allow_cache THEN MapSet(history, u, content)
                                   ELSE history
    /\ attempt' = 0
    /\ last_error' = NoError
    /\ html_url' = <<>>
    /\ trigger' = "none"
    /\ exc' = NoError

\* an exception leaves fetch_article
Raise_(e) ==
    /\ pc' = "raised"
    /\ result' = [raised |-> TRUE, content |-> <<>>, error |-> e]
    /\ attempt' = 0
    /\ last_error' = NoError
    /\ html_url' = <<>>
    /\ trigger' = "none"
    /\ exc' = NoError
    /\ UNCHANGED <<CACHE_HTML, CACHE_MARKDOWN, outcome, history>>

\* line 179
RaiseExhausted(le) == Raise_(FetchError(url, ExhaustedMessage(le)))

\* NextAttempt that keeps the first error instead of the last one
NextAttempt_KeepFirst(le) ==
    LET kept == IF last_error = NoError THEN le ELSE last_error
    IN IF attempt + 1 < LoopCount(cfg)
       THEN /\ pc' = "get"
            /\ attempt' = attempt + 1
            /\ last_error' = kept
            /\ html_url' = <<>>
            /\ trigger' = "none"
            /\ exc' = NoError
            /\ UNCHANGED <<CACHE_HTML, CACHE_MARKDOWN, outcome, history,
                           result>>
       ELSE RaiseExhausted(kept)

\* end of one iteration of the retry loop with last_error = le
NextAttempt(le) ==
    IF attempt + 1 < LoopCount(cfg)
    THEN /\ pc' = "get"
         /\ attempt' = attempt + 1
         /\ last_error' = le
         /\ html_url' = <<>>
         /\ trigger' = "none"
         /\ exc' = NoError
         /\ UNCHANGED <<CACHE_HTML, CACHE_MARKDOWN, outcome, history, result>>
    ELSE RaiseExhausted(le)

\* FallbackSuccess that skips clean_markdown_content
FallbackSuccess_Raw(markdown, strategy, log) ==
    Return_(url, cfg, markdown,
            FetchOutcome(markdown, strategy, "markdown", Elapsed(log), <<>>),
            CACHE_HTML,
            IF cfg.allow_cache THEN MapSet(CACHE_MARKDOWN, url, markdown)
                               ELSE CACHE_MARKDOWN)

\* _fetch_markdown_fallback succeeded with raw provider output markdown
FallbackSuccess(markdown, strategy, log) ==
    LET cm == clean_markdown_content(markdown)
    IN Return_(url, cfg, cm.cleaned,
               FetchOutcome(cm.cleaned, strategy, "markdown", Elapsed(log),
                            cm.removed),
               CACHE_HTML,
               IF cfg.allow_cache THEN MapSet(CACHE_MARKDOWN, url, cm.cleaned)
                                  ELSE CACHE_MARKDOWN)

\* FallbackFailure without the break of the binary call site
FallbackFailure_NoBreak(tr, fallback_error) == NextAttempt(fallback_error)

\* _fetch_markdown_fallback raised fallback_error at call site tr
FallbackFailure(tr, fallback_error) ==
    IF tr = "binary"
    THEN RaiseExhausted(fallback_error)     \* lines 145-147: break
    ELSE NextAttempt(fallback_error)        \* lines 171-172

\* FirstProvider with the two providers swapped
FirstProvider_Jina == "jina"

\* the provider of the outer try of _fetch_markdown_fallback (line 195)
FirstProvider == "urltomd"

\* entry of _fetch_markdown_fallback (lines 184-193) from call site tr
EnterFallback(tr, le, hu) ==
    IF cfg.allow_cache /\ url \in DOMAIN CACHE_MARKDOWN
    THEN Return_(url, cfg, CACHE_MARKDOWN[url],
                 FetchOutcome(CACHE_MARKDOWN[url], "url-to-md-cache",
                              "markdown", 0, <<>>),
                 CACHE_HTML, CACHE_MARKDOWN)
    ELSE /\ pc' = FirstProvider
         /\ trigger' = tr
         /\ last_error' = le
         /\ html_url' = hu
         /\ UNCHANGED <<CACHE_HTML, CACHE_MARKDOWN, outcome, history, result,
                        attempt, exc>>

\* HttpSuccess that stores the html in the markdown namespace
HttpSuccess_MarkdownNamespace(text, log) ==
    Return_(url, cfg, text,
            FetchOutcome(text, "httpx", "html", Elapsed(log), <<>>),
            CACHE_HTML,
            IF cfg.allow_cache THEN MapSet(CACHE_MARKDOWN, url, text)
                               ELSE CACHE_MARKDOWN)

\* HttpSuccess that stores the html whatever allow_cache says
HttpSuccess_AlwaysCached(text, log) ==
    Return_(url, cfg, text,
            FetchOutcome(text, "httpx", "html", Elapsed(log), <<>>),
            MapSet(CACHE_HTML, url, text), CACHE_MARKDOWN)

\* lines 128-138 and 152-162: html found by plain HTTP
HttpSuccess(text, log) ==
    Return_(url, cfg, text,
            FetchOutcome(text, "httpx", "html", Elapsed(log), <<>>),
            IF cfg.allow_cache THEN MapSet(CACHE_HTML, url, text)
                               ELSE CACHE_HTML,
            CACHE_MARKDOWN)

-----------------------------------------------------------------------------
(* article_fetcher: the steps of fetch_article *)

\* lines 72-99: the cache check, then the retry loop is entered
fetch_article(u, c) ==
    /\ pc \in Terminal
    /\ ncalls < MaxCalls
    /\ ncalls' = ncalls + 1
    /\ url' = u
    /\ cfg' = c
    /\ calls' = <<>>
    /\ gets' = 0
    /\ transport_fails' = 0
    /\ fallback_failed' = FALSE
    /\ IF c.allow_cache /\ CacheHit(CACHE_HTML, u)
       THEN Return_(u, c, CACHE_HTML[u],
                    FetchOutcome(CACHE_HTML[u], "httpx-cache", "html", 0, <<>>),
                    CACHE_HTML, CACHE_MARKDOWN)
       ELSE IF c.allow_cache /\ CacheHit(CACHE_MARKDOWN, u)
       THEN Return_(u, c, CACHE_MARKDOWN[u],
                    FetchOutcome(CACHE_MARKDOWN[u], "url-to-md-cache",
                                 "markdown", 0, <<>>),
                    CACHE_HTML, CACHE_MARKDOWN)
       ELSE /\ pc' = "get"
            /\ result' = NoResult
            /\ attempt' = 0
            /\ last_error' = NoError
            /\ html_url' = <<>>
            /\ trigger' = "none"
            /\ exc' = NoError
            /\ UNCHANGED <<CACHE_HTML, CACHE_MARKDOWN, outcome, history>>
    /\ UNCHANGED nonFetchVars

\* the text a GET hands to the fetcher
GetText(r) == IF r.kind = "ok" THEN r.text ELSE <<>>

\* how a GET result is entered in the log
GetRes(r) ==
    CASE r.kind = "raise"  -> "transport"
      [] r.kind = "status" -> r.status
      [] r.kind = "ok"     -> IF IsBinary(r.content_type) THEN "binary"
                              ELSE "html"

\* f"HTTP {status}: {body}"
StatusMessage(r) == <<"HTTP ", r.status, ": ">> \o r.text

GetReason(r) ==
    CASE r.kind = "raise"  -> Str(r.exc)
      [] r.kind = "status" -> StatusMessage(r)
      [] r.kind = "ok"     -> <<>>

\* the exception httpx.get / raise_for_status raises for result r
GetException(r) ==
    IF r.kind = "raise" THEN r.exc
    ELSE [type |-> "HTTPStatusError", msg |-> <<"status ", r.status>>]

\* lines 101-121 and 152-179: one direct GET of the retry loop
HttpGet ==
    /\ pc = "get"
    /\ \E r \in GetResults :
         LET log == <<Call("GET", url, cfg.timeout, GetRes(r), GetReason(r),
                           GetText(r))>>
             e == GetException(r)
         IN /\ calls' = log
            /\ gets' = gets + 1
            /\ transport_fails' = IF r.kind = "raise" THEN transport_fails + 1
                                                      ELSE transport_fails
            /\ fallback_failed' = fallback_failed
            /\ IF r.kind = "ok"
               THEN IF IsBinary(r.content_type)
                    THEN IF HtmlUrl(url) # <<>>
                         THEN /\ pc' = "sibling"
                              /\ html_url' = HtmlUrl(url)
                              /\ UNCHANGED <<CACHE_HTML, CACHE_MARKDOWN,
                                             outcome, history, result, attempt,
                                             last_error, trigger, exc>>
                         ELSE EnterFallback("binary", last_error, <<>>)
                    ELSE HttpSuccess(r.text, log)
               ELSE IF Catches({"HTTPStatusError"}, e)
               THEN LET le == FetchError(url, StatusMessage(r))
                    IN IF r.status \in FallbackStatuses
                       THEN EnterFallback("status", le, <<>>)
                       ELSE NextAttempt(le)
               ELSE IF Catches({"HTTPError"}, e)
               THEN NextAttempt(e)
               ELSE Raise_(e)
    /\ UNCHANGED <<url, cfg, ncalls>>
    /\ UNCHANGED nonFetchVars

SiblingResults ==
    [kind : {"raise"}, exc : TransportErrors]
    \cup [kind : {"ok"}, content_type : {"text/html"}, text : HtmlBodies]
    \cup [kind : {"ok"}, content_type : {"application/pdf"},
          text : {<<"%PDF">>}]
    \cup [kind : {"status"}, status : {"404"}, text : {<<"missing">>}]

SiblingRes(r) ==
    CASE r.kind = "raise"  -> "transport"
      [] r.kind = "status" -> r.status
      [] r.kind = "ok"     -> IF IsHtmlType(r.content_type) THEN "html"
                              ELSE "nohtml"

\* lines 121-150: the GET of the rewritten URL, then html or the fallback
SiblingGet ==
    /\ pc = "sibling"
    /\ \E r \in SiblingResults :
         LET log == Append(calls, Call("SIBLING_GET", html_url, cfg.timeout,
                                       SiblingRes(r), GetReason(r),
                                       GetText(r)))
             e == GetException(r)
         IN /\ calls' = log
            /\ UNCHANGED <<gets, transport_fails, fallback_failed>>
            /\ IF r.kind = "ok"
               THEN IF IsHtmlType(r.content_type)
                    THEN HttpSuccess(r.text, log)
                    ELSE EnterFallback("binary", last_error, html_url)
               ELSE IF Catches({"HTTPError", "TimeoutException"}, e)
               THEN EnterFallback("binary", last_error, html_url)
               ELSE Raise_(e)
    /\ UNCHANGED <<url, cfg, ncalls>>
    /\ UNCHANGED nonFetchVars

\* what fetch_with_urltomd does: markdown, or UrlToMdError
UrlToMdResults ==
    [kind : {"ok"}, markdown : MdDocs]
    \cup [kind : {"raise"}, exc : {UrlToMdError(url, <<"blocked">>)}]

\* what fetch_with_jina does: markdown, or JinaFetchError
JinaResults ==
    [kind : {"ok"}, markdown : MdDocs]
    \cup [kind : {"raise"}, exc : {JinaFetchError(url, <<"down">>)}]

\* lines 194-197 and 208-220: the first provider
UrlToMd ==
    /\ pc = "urltomd"
    /\ \E r \in UrlToMdResults :
         LET log == Append(calls,
                           Call("URLTOMD", url, URLTOMD_TIMEOUT,
                                IF r.kind = "ok" THEN "ok" ELSE "error",
                                IF r.kind = "ok" THEN <<>> ELSE Str(r.exc),
                                IF r.kind = "ok" THEN r.markdown ELSE <<>>))
         IN /\ calls' = log
            /\ UNCHANGED <<gets, transport_fails, fallback_failed>>
            /\ IF r.kind = "ok"
               THEN FallbackSuccess(r.markdown, "url-to-md", log)
               ELSE IF Catches({"UrlToMdError"}, r.exc)
               THEN /\ pc' = "jina"
                    /\ exc' = r.exc
                    /\ UNCHANGED <<CACHE_HTML, CACHE_MARKDOWN, outcome,
                                   history, result, attempt, last_error,
                                   html_url, trigger>>
               ELSE Raise_(r.exc)
    /\ UNCHANGED <<url, cfg, ncalls>>
    /\ UNCHANGED nonFetchVars

\* lines 198-220: the second provider
Jina ==
    /\ pc = "jina"
    /\ \E r \in JinaResults :
         LET log == Append(calls,
                           Call("JINA", url, JINA_TIMEOUT,
                                IF r.kind = "ok" THEN "ok" ELSE "error",
                                IF r.kind = "ok" THEN <<>> ELSE Str(r.exc),
                                IF r.kind = "ok" THEN r.markdown ELSE <<>>))
         IN /\ calls' = log
            /\ UNCHANGED <<gets, transport_fails>>
            /\ fallback_failed' = (fallback_failed \/ r.kind = "raise")
            /\ IF r.kind = "ok"
               THEN FallbackSuccess(r.markdown, "jina", log)
               ELSE IF Catches({"JinaFetchError"}, r.exc)
               THEN FallbackFailure(trigger,
                                    FetchError(url, FallbackMessage(exc, r.exc)))
               ELSE Raise_(r.exc)
    /\ UNCHANGED <<url, cfg, ncalls>>
    /\ UNCHANGED nonFetchVars

\* lines 49-52
clear_cache ==
    /\ pc \in Terminal
    /\ CACHE_HTML' = EmptyMap
    /\ CACHE_MARKDOWN' = EmptyMap
    /\ history' = EmptyMap
    /\ UNCHANGED <<outcome, pc, url, cfg, attempt, last_error, html_url,
                   trigger, exc, result, calls, gets, transport_fails,
                   fallback_failed, ncalls>>
    /\ UNCHANGED nonFetchVars

\* lines 55-57
clear_markdown_cache ==
    /\ pc \in Terminal
    /\ CACHE_MARKDOWN' = EmptyMap
    /\ history' = EmptyMap
    /\ UNCHANGED <<CACHE_HTML, outcome, pc, url, cfg, attempt, last_error,
                   html_url, trigger, exc, result, calls, gets,
                   transport_fails, fallback_failed, ncalls>>
    /\ UNCHANGED nonFetchVars

-----------------------------------------------------------------------------
(***************************************************************************)
(* Part 2: cli.process_articles.  Phase 1 runs _fetch_and_extract_article  *)
(* for every link on a thread pool and collects the futures as they        *)
(* complete, phase 2 summarizes the collected articles one after another.  *)
(***************************************************************************)

MAX_WORKERS == 5

\* None and a present value, with Python's truthiness: None is falsy
None == <<>>
Some(x) == <<x>>

\* the url of the i-th link of the alert
LinkUrl(i) == <<"h">> \o [k \in 1..i |-> "/a"]

\* links[:max_articles] if max_articles else links (0 stands for None)
LinksToProcess(ls, max_articles) ==
    IF max_articles # 0 THEN SubSeq(ls, 1, IF max_articles < Len(ls)
                                           THEN max_articles ELSE Len(ls))
    ELSE ls

\* reason = str(exc) without the prefix f"Failed to fetch {url}: "
StripPrefix(reason, prefix) ==
    IF Len(reason) >= Len(prefix) /\ SubSeq(reason, 1, Len(prefix)) = prefix
    THEN SubSeq(reason, Len(prefix) + 1, Len(reason))
    ELSE reason

\* what the calls made by _fetch_and_extract_article can answer:
\*   fetch     fetch_article: FetchError, another exception, or an outcome
\*             of format html / markdown
\*   extract   extract_content: raises, returns blank text, returns text
\*   blank     is the markdown returned by fetch_article blank
\*   q1, q2    the text before / after the refetch: "short" is fewer than
\*             100 words, "lowq" is a failure verdict of the classifier
\*   fallback  _fetch_markdown_fallback: FetchError or markdown
\*   io        does a write_text / unlink of the function raise OSError
WorkerEnvs ==
    LET Env(fetch, extract, blank, q1, fallback, q2, io) ==
            [fetch |-> fetch, extract |-> extract, blank |-> blank, q1 |-> q1,
             fallback |-> fallback, q2 |-> q2, io |-> io]
        Q == {"ok", "short", "lowq"}
    IN \* answers that are never asked for are left at a fixed value
       {Env(f, "ok", FALSE, "ok", "ok", "ok", FALSE) :
            f \in {"FetchError", "OtherError"}}
       \cup {Env(f, "ok", FALSE, "ok", "ok", "ok", TRUE) :
            f \in {"html", "markdown"}}
       \cup {Env("html", x, FALSE, "ok", "ok", "ok", FALSE) :
            x \in {"raise", "blank", "ok"}}
       \cup {Env("html", "ok", FALSE, q, "FetchError", "ok", FALSE) :
            q \in {"short", "lowq"}}
       \cup {Env("html", "ok", FALSE, q[1], "ok", q[2], FALSE) :
            q \in {"short", "lowq"} \X Q}
       \cup {Env("markdown", "ok", TRUE, "ok", "ok", "ok", FALSE)}
       \cup {Env("markdown", "ok", FALSE, q, "ok", "ok", FALSE) : q \in Q}

Failure(u, reason) == [url |-> u, reason |-> reason]

Returned(article_data, failure) ==
    [raised |-> FALSE, article_data |-> article_data, failure |-> failure,
     exc |-> <<>>]

Raised(e) ==
    [raised |-> TRUE, article_data |-> None, failure |-> None, exc |-> e]

ArticleData(u, content) == [url |-> u, content |-> content]

\* lines 301-307: the final validation
FinalValidation(u, q, suffix) ==
    IF q = "short"
    THEN Returned(None, Some(Failure(u, <<"only N words extracted">> \o suffix)))
    ELSE IF q = "lowq"
    THEN Returned(None, Some(Failure(u, <<"quality failure">>)))
    ELSE Returned(Some(ArticleData(u, <<"content">>)), None)

\* lines 246-322, once content_text is known
ValidateAndRetry(u, format, env) ==
    LET should_retry == env.q1 # "ok"
        retry_reason == IF env.q1 = "short"
                        THEN <<"insufficient content (N words)">>
                        ELSE <<"quality failure">>
    IN IF should_retry /\ format = "html"
       THEN IF env.fallback = "FetchError"
            THEN Returned(None, Some(Failure(u, retry_reason)))
            ELSE FinalValidation(u, env.q2, <<" (after fallback)">>)
       ELSE FinalValidation(u, env.q1, <<>>)

\* cli._fetch_and_extract_article as a function of its answers
FetchAndExtract(u, env) ==
    IF env.fetch = "FetchError"
    THEN Returned(None,
                  Some(Failure(u, StripPrefix(
                      FetchError(u, <<"HTTP 403">>).msg,
                      <<"Failed to fetch ">> \o u \o <<": ">>))))
    ELSE IF env.fetch = "OtherError"
    THEN Raised(<<"error in fetch_article">>)
    ELSE IF env.io
    THEN Raised(<<"OSError">>)
    ELSE IF env.fetch = "html"
    THEN IF env.extract = "raise"
         THEN Returned(None, Some(Failure(u, <<"clean failed: ", "error">>)))
         ELSE IF env.extract = "blank"
         THEN Returned(None, Some(Failure(u, <<"clean failed: ",
                                               "no content extracted">>)))
         ELSE ValidateAndRetry(u, "html", env)
    ELSE IF env.blank
         THEN Returned(None, Some(Failure(u, <<"clean failed: empty markdown">>)))
         ELSE ValidateAndRetry(u, "markdown", env)

\* what summarize_article can do inside _summarize_article
SummarizeEnvs == {"ok", "SummarizerError", "OtherError"}

\* cli._summarize_article
SummarizeArticle(article_data, env) ==
    IF env = "ok"
    THEN [raised |-> FALSE, summary |-> Some([url |-> article_data.url]),
          failure |-> None]
    ELSE IF env = "SummarizerError"
    THEN [raised |-> FALSE, summary |-> None,
          failure |-> Some(Failure(article_data.url,
                                   <<"summarize failed: ", "error">>))]
    ELSE [raised |-> TRUE, summary |-> None, failure |-> None]

-----------------------------------------------------------------------------
(* cli.process_articles: the steps *)

Indices == 1..Len(links_to_process)

Running == {i \in Indices : future[i] = "running"}

\* a pool that starts a thread for every submitted task
PoolHasIdleThread_Unbounded == TRUE

\* ThreadPoolExecutor(max_workers=MAX_WORKERS): a thread is free to take work
PoolHasIdleThread == Cardinality(Running) < MAX_WORKERS

\* a pool thread takes the next work item (the pool's queue is FIFO)
StartWorker(i) ==
    /\ phase = "fetch"
    /\ future[i] = "queued"
    /\ \A j \in Indices : j < i => future[j] # "queued"
    /\ PoolHasIdleThread
    /\ future' = [future EXCEPT ![i] = "running"]
    /\ UNCHANGED <<links_to_process, future_result, article_data_list,
                   summaries, failures, phase, pos, in_summarize>>
    /\ UNCHANGED nonPipeVars

\* _fetch_and_extract_article(idx, link, ...) runs to its end on its thread,
\* its callees answering as one of envs
RunWorkerIn(i, envs) ==
    /\ phase = "fetch"
    /\ future[i] = "running"
    /\ \E env \in envs :
         future_result' = [future_result EXCEPT
                             ![i] = FetchAndExtract(links_to_process[i], env)]
    /\ future' = [future EXCEPT ![i] = "finished"]
    /\ UNCHANGED <<links_to_process, article_data_list, summaries, failures,
                   phase, pos, in_summarize>>
    /\ UNCHANGED nonPipeVars

RunWorker(i) == RunWorkerIn(i, WorkerEnvs)

\* CollectResult whose except branch records nothing
CollectResult_DropsRaised(r, i) ==
    IF r.raised
    THEN UNCHANGED <<article_data_list, failures>>
    ELSE /\ article_data_list' = IF r.article_data # None
                                 THEN Append(article_data_list,
                                             r.article_data[1])
                                 ELSE article_data_list
         /\ failures' = IF r.failure # None
                        THEN Append(failures, r.failure[1])
                        ELSE failures

\* lines 399-410: the body of the as_completed loop for one future
CollectResult(r, i) ==
    IF r.raised
    THEN /\ failures' = Append(failures,
                               Failure(links_to_process[i],
                                       <<"unexpected error: ">> \o r.exc))
         /\ UNCHANGED article_data_list
    ELSE /\ article_data_list' = IF r.article_data # None
                                 THEN Append(article_data_list,
                                             r.article_data[1])
                                 ELSE article_data_list
         /\ failures' = IF r.failure # None
                        THEN Append(failures, r.failure[1])
                        ELSE failures

\* lines 398-410: as_completed hands over a finished future
Collect(i) ==
    /\ phase = "fetch"
    /\ future[i] = "finished"
    /\ CollectResult(future_result[i], i)
    /\ future' = [future EXCEPT ![i] = "collected"]
    /\ UNCHANGED <<links_to_process, future_result, summaries, phase, pos,
                   in_summarize>>
    /\ UNCHANGED nonPipeVars

\* lines 411-416: the pool is shut down, phase 2 begins
StartPhase2 ==
    /\ phase = "fetch"
    /\ \A i \in Indices : future[i] = "collected"
    /\ phase' = "summarize"
    /\ pos' = 1
    /\ UNCHANGED <<links_to_process, future, future_result, article_data_list,
                   summaries, failures, in_summarize>>
    /\ UNCHANGED nonPipeVars

\* lines 417-419: the loop takes the next article and calls
\* _summarize_article
BeginSummarize ==
    /\ phase = "summarize"
    /\ pos <= Len(article_data_list)
    /\ phase' = "summarizing"
    /\ in_summarize' = in_summarize + 1
    /\ UNCHANGED <<links_to_process, future, future_result, article_data_list,
                   summaries, failures, pos>>
    /\ UNCHANGED nonPipeVars

\* lines 419-428: the call comes back, as one of envs, and its result is
\* recorded
SummarizeIn(envs) ==
    /\ phase = "summarizing"
    /\ \E env \in envs :
         LET article_data == article_data_list[pos]
             r == SummarizeArticle(article_data, env)
         IN IF r.raised
            THEN /\ failures' = Append(failures,
                                       Failure(article_data.url,
                                               <<"unexpected error: ", "error">>))
                 /\ UNCHANGED summaries
            ELSE /\ summaries' = IF r.summary # None
                                 THEN Append(summaries, r.summary[1])
                                 ELSE summaries
                 /\ failures' = IF r.failure # None
                                THEN Append(failures, r.failure[1])
                                ELSE failures
    /\ pos' = pos + 1
    /\ phase' = "summarize"
    /\ in_summarize' = in_summarize - 1
    /\ UNCHANGED <<links_to_process, future, future_result, article_data_list>>
    /\ UNCHANGED nonPipeVars

Summarize == SummarizeIn(SummarizeEnvs)

\* line 430
ReturnSummaries ==
    /\ phase = "summarize"
    /\ pos > Len(article_data_list)
    /\ phase' = "done"
    /\ UNCHANGED <<links_to_process, future, future_result, article_data_list,
                   summaries, failures, pos, in_summarize>>
    /\ UNCHANGED nonPipeVars

\* lines 369-395: process_articles up to the submission of every task
PipeStart(n, max_articles) ==
    /\ links_to_process =
           LinksToProcess([i \in 1..n |-> LinkUrl(i)], max_articles)
    /\ future = [i \in 1..Len(links_to_process) |-> "queued"]
    /\ future_result = [i \in 1..Len(links_to_process) |-> Raised(<<>>)]
    /\ article_data_list = <<>>
    /\ summaries = <<>>
    /\ failures = <<>>
    /\ phase = "fetch"
    /\ pos = 0
    /\ in_summarize = 0

\* no batch is being processed
PipeIdle == PipeStart(0, 0)

-----------------------------------------------------------------------------
(***************************************************************************)
(* The per-strategy tally of process_articles.  Each pool thread runs      *)
(* _fetch_and_extract_article and adds one to strategy_counter for every   *)
(* outcome it gets: "with counter_lock: strategy_counter[s] += 1", where   *)
(* "+= 1" reads the tally and then stores the sum.                         *)
(***************************************************************************)

Threads == 1..MaxThreads

\* FetchOutcome.strategy
Strategies == {"httpx", "httpx-cache", "url-to-md", "url-to-md-cache", "jina"}

\* HtmlStrategies if markdown outcomes were refetched too
HtmlStrategies_Any == {"httpx", "httpx-cache", "url-to-md", "url-to-md-cache",
                       "jina"}

\* the strategies of an html outcome
HtmlStrategies == {"httpx", "httpx-cache"}

\* the strategies _fetch_markdown_fallback(url, allow_cache=False) reports
RefetchStrategies == {"url-to-md", "jina"}

\* a lock that never blocks
LockFree_Never == TRUE

\* counter_lock can be acquired
LockFree == counter_lock = 0

\* lines 197-209: fetch_article raises, or returns with an outcome
TFetch(t) ==
    /\ tpc[t] = "fetch"
    /\ \/ /\ tpc' = [tpc EXCEPT ![t] = "done"]
          /\ UNCHANGED <<tstrategy, recorded>>
       \/ \E s \in Strategies :
            /\ tstrategy' = [tstrategy EXCEPT ![t] = s]
            /\ recorded' = recorded + 1
            /\ tpc' = [tpc EXCEPT ![t] = "acquire"]
    /\ UNCHANGED <<strategy_counter, counter_lock, ttmp, refetched>>
    /\ UNCHANGED nonTallyVars

\* lines 221 and 275: with counter_lock
TAcquire(t) ==
    /\ tpc[t] = "acquire"
    /\ LockFree
    /\ counter_lock' = t
    /\ tpc' = [tpc EXCEPT ![t] = "read"]
    /\ UNCHANGED <<strategy_counter, tstrategy, ttmp, refetched, recorded>>
    /\ UNCHANGED nonTallyVars

\* lines 222 and 276: the read of strategy_counter[strategy] += 1
TRead(t) ==
    /\ tpc[t] = "read"
    /\ ttmp' = [ttmp EXCEPT ![t] = strategy_counter[tstrategy[t]]]
    /\ tpc' = [tpc EXCEPT ![t] = "write"]
    /\ UNCHANGED <<strategy_counter, counter_lock, tstrategy, refetched,
                   recorded>>
    /\ UNCHANGED nonTallyVars

\* lines 222 and 276: the store of strategy_counter[strategy] += 1
TWrite(t) ==
    /\ tpc[t] = "write"
    /\ strategy_counter' =
           [strategy_counter EXCEPT ![tstrategy[t]] = ttmp[t] + 1]
    /\ tpc' = [tpc EXCEPT ![t] = "release"]
    /\ UNCHANGED <<counter_lock, tstrategy, ttmp, refetched, recorded>>
    /\ UNCHANGED nonTallyVars

\* the end of the with block
TRelease(t) ==
    /\ tpc[t] = "release"
    /\ counter_lock' = IF counter_lock = t THEN 0 ELSE counter_lock
    /\ tpc' = [tpc EXCEPT ![t] = IF refetched[t] THEN "done" ELSE "extract"]
    /\ UNCHANGED <<strategy_counter, tstrategy, ttmp, refetched, recorded>>
    /\ UNCHANGED nonTallyVars

\* lines 224-322: extraction and validation; an html outcome that needs a
\* retry is refetched as markdown (lines 267-296)
TExtract(t) ==
    /\ tpc[t] = "extract"
    /\ \/ /\ tpc' = [tpc EXCEPT ![t] = "done"]
          /\ UNCHANGED <<tstrategy, refetched, recorded>>
       \/ /\ tstrategy[t] \in HtmlStrategies
          /\ \E s \in RefetchStrategies :
               /\ tstrategy' = [tstrategy EXCEPT ![t] = s]
               /\ refetched' = [refetched EXCEPT ![t] = TRUE]
               /\ recorded' = recorded + 1
               /\ tpc' = [tpc EXCEPT ![t] = "acquire"]
    /\ UNCHANGED <<strategy_counter, counter_lock, ttmp>>
    /\ UNCHANGED nonTallyVars

\* lines 377-395: the empty tally, the free lock and the submitted tasks
TallyStart(threads) ==
    /\ strategy_counter = [s \in Strategies |-> 0]
    /\ counter_lock = 0
    /\ tpc = [t \in threads |-> "fetch"]
    /\ tstrategy = [t \in threads |-> "httpx"]
    /\ ttmp = [t \in threads |-> 0]
    /\ refetched = [t \in threads |-> FALSE]
    /\ recorded = 0

\* no thread is running
TallyIdle == TallyStart({})

-----------------------------------------------------------------------------
(***************************************************************************)
(* The browser-backed fetchers.  fetch_with_crawlee_sync runs the crawler  *)
(* in a python subprocess under the lock _SYNC_GUARD; fetch_with_urltomd   *)
(* runs the url-to-md CLI in a session of its own.  Both subprocesses      *)
(* start browser processes of their own.                                   *)
(***************************************************************************)

Crawlers == 1..MaxCrawlers

\* a result of a browser-backed call
CallReturned(text) == [raised |-> FALSE, type |-> "str", msg |-> text]
CrawleeFetchError(message) ==
    [raised |-> TRUE, type |-> "CrawleeFetchError", msg |-> message]
UrlToMdRaised(u, message) ==
    [raised |-> TRUE, type |-> "UrlToMdError", msg |-> UrlToMdError(u, message).msg]
NoCall == [raised |-> FALSE, type |-> "None", msg |-> <<>>]

\* the browser processes of a subprocess that came to its end by itself:
\* the script destroys its browser pool in a finally block (lines 185-190),
\* errors of which are swallowed
AfterOwnExit(b) == IF b = "alive" THEN {"alive", "gone"} ELSE {b}

\* a guard that never blocks
GuardFree_Never == TRUE

\* _SYNC_GUARD can be acquired
GuardFree == sync_guard = 0

\* fetch_with_crawlee_sync is called on thread t
CCall(t) ==
    /\ cpc[t] \in {"idle", "returned", "raised"}
    /\ ccalls < MaxCrawlCalls
    /\ ccalls' = ccalls + 1
    /\ cpc' = [cpc EXCEPT ![t] = "acquire"]
    /\ child' = [child EXCEPT ![t] = "none"]
    /\ cres' = [cres EXCEPT ![t] = NoCall]
    /\ UNCHANGED <<sync_guard, browser, upc, uleader, uchrome, ures>>
    /\ UNCHANGED nonBrowserVars

\* line 115: with _SYNC_GUARD
CAcquire(t) ==
    /\ cpc[t] = "acquire"
    /\ GuardFree
    /\ sync_guard' = t
    /\ cpc' = [cpc EXCEPT ![t] = "spawn"]
    /\ UNCHANGED <<child, browser, cres, ccalls, upc, uleader, uchrome, ures>>
    /\ UNCHANGED nonBrowserVars

\* lines 205-211: subprocess.run starts the python subprocess, or fails to
\* (lines 232-235)
CSpawn(t) ==
    /\ cpc[t] = "spawn"
    /\ \/ /\ child' = [child EXCEPT ![t] = "running"]
          /\ cpc' = [cpc EXCEPT ![t] = "run"]
          /\ UNCHANGED cres
       \/ /\ cres' = [cres EXCEPT
                        ![t] = CrawleeFetchError(<<"subprocess error: ", "OSError">>)]
          /\ cpc' = [cpc EXCEPT ![t] = "release"]
          /\ UNCHANGED child
    /\ UNCHANGED <<sync_guard, browser, ccalls, upc, uleader, uchrome, ures>>
    /\ UNCHANGED nonBrowserVars

\* the subprocess launches its browser (PlaywrightCrawler.run, line 182)
CBrowser(t) ==
    /\ child[t] = "running"
    /\ browser[t] # "alive"
    /\ browser' = [browser EXCEPT ![t] = "alive"]
    /\ UNCHANGED <<sync_guard, cpc, child, cres, ccalls, upc, uleader,
                   uchrome, ures>>
    /\ UNCHANGED nonBrowserVars

\* what subprocess.run hands back when the subprocess ends in time, lines
\* 213-228
CrawleeResults ==
    { CallReturned(<<"<html>ok</html>">>),
      CrawleeFetchError(<<"timeout after ", "60.0", "s">>),
      CrawleeFetchError(<<"page handler error">>),
      CrawleeFetchError(<<"subprocess failed: ", "stderr">>),
      CrawleeFetchError(<<"invalid subprocess output: ", "error">>) }

\* lines 205-228: the subprocess ends before config.timeout + 10
CChildExit(t) ==
    /\ cpc[t] = "run"
    /\ child[t] = "running"
    /\ child' = [child EXCEPT ![t] = "exited"]
    /\ \E b \in AfterOwnExit(browser[t]) :
         browser' = [browser EXCEPT ![t] = b]
    /\ \E r \in CrawleeResults : cres' = [cres EXCEPT ![t] = r]
    /\ cpc' = [cpc EXCEPT ![t] = "release"]
    /\ UNCHANGED <<sync_guard, ccalls, upc, uleader, uchrome, ures>>
    /\ UNCHANGED nonBrowserVars

\* lines 205-211 and 230-231: config.timeout + 10 passes; subprocess.run
\* kills the subprocess it started, waits for it and raises TimeoutExpired
CTimeout(t) ==
    /\ cpc[t] = "run"
    /\ child[t] = "running"
    /\ child' = [child EXCEPT ![t] = "killed"]
    /\ cres' = [cres EXCEPT
                  ![t] = CrawleeFetchError(<<"subprocess timeout after ",
                                             "60.0", "s">>)]
    /\ cpc' = [cpc EXCEPT ![t] = "release"]
    /\ UNCHANGED <<sync_guard, browser, ccalls, upc, uleader, uchrome, ures>>
    /\ UNCHANGED nonBrowserVars

\* lines 115-120: the with block is left, the result goes to the caller
CRelease(t) ==
    /\ cpc[t] = "release"
    /\ sync_guard' = IF sync_guard = t THEN 0 ELSE sync_guard
    /\ cpc' = [cpc EXCEPT ![t] = IF cres[t].raised THEN "raised"
                                 ELSE "returned"]
    /\ UNCHANGED <<child, browser, cres, ccalls, upc, uleader, uchrome, ures>>
    /\ UNCHANGED nonBrowserVars

\* browser processes left without their parent come to an end by themselves
COrphanExit(t) ==
    /\ browser[t] = "alive"
    /\ child[t] # "running"
    /\ browser' = [browser EXCEPT ![t] = "gone"]
    /\ UNCHANGED <<sync_guard, cpc, child, cres, ccalls, upc, uleader,
                   uchrome, ures>>
    /\ UNCHANGED nonBrowserVars

\* urltomd_fetcher lines 44-55 and 81-82: Popen(start_new_session=True)
UCall ==
    /\ upc \in {"idle", "returned", "raised"}
    /\ ccalls < MaxCrawlCalls
    /\ ccalls' = ccalls + 1
    /\ \/ /\ uleader' = "running"
          /\ upc' = "communicate"
          /\ ures' = NoCall
       \/ /\ uleader' = "none"
          /\ upc' = "raised"
          /\ ures' = UrlToMdRaised(<<"h">>, <<"url-to-md binary not found">>)
    /\ UNCHANGED <<sync_guard, cpc, child, browser, cres, uchrome>>
    /\ UNCHANGED nonBrowserVars

\* url-to-md launches Chrome (through Puppeteer)
UChrome ==
    /\ uleader = "running"
    /\ uchrome # "alive"
    /\ uchrome' = "alive"
    /\ UNCHANGED <<sync_guard, cpc, child, browser, cres, ccalls, upc,
                   uleader, ures>>
    /\ UNCHANGED nonBrowserVars

\* what the ended process leaves, lines 93-101
UrlToMdExits ==
    { CallReturned(<<"text">>),
      UrlToMdRaised(<<"h">>, <<"exit code 1">>),
      UrlToMdRaised(<<"h">>, <<"no content returned">>) }

\* lines 57 and 93-101: the process ends before cfg.timeout + 5
UExit ==
    /\ upc = "communicate"
    /\ uleader = "running"
    /\ uleader' = "exited"
    /\ \E c \in AfterOwnExit(uchrome) : uchrome' = c
    /\ \E r \in UrlToMdExits :
         /\ ures' = r
         /\ upc' = IF r.raised THEN "raised" ELSE "returned"
    /\ UNCHANGED <<sync_guard, cpc, child, browser, cres, ccalls>>
    /\ UNCHANGED nonBrowserVars

\* lines 59-80: cfg.timeout + 5 passes.  SIGTERM goes to the process group;
\* a process ends on it or does not.  If the leader has not ended after 2 s,
\* SIGKILL goes to the group, and none of the group is left.  If it has,
\* only the leader is killed again (lines 75-77).
UTimeout ==
    /\ upc = "communicate"
    /\ uleader = "running"
    /\ \E leader_ends, chrome_ends \in BOOLEAN :
         /\ uleader' = "killed"
         /\ uchrome' = IF uchrome = "alive" /\ leader_ends /\ ~chrome_ends
                       THEN "alive"
                       ELSE IF uchrome = "alive" THEN "gone" ELSE uchrome
    /\ ures' = UrlToMdRaised(<<"h">>, <<"timeout after ", "10.0", "s">>)
    /\ upc' = "raised"
    /\ UNCHANGED <<sync_guard, cpc, child, browser, cres, ccalls>>
    /\ UNCHANGED nonBrowserVars

\* Chrome processes left without url-to-md come to an end by themselves
UOrphanExit ==
    /\ uchrome = "alive"
    /\ uleader # "running"
    /\ uchrome' = "gone"
    /\ UNCHANGED <<sync_guard, cpc, child, browser, cres, ccalls, upc,
                   uleader, ures>>
    /\ UNCHANGED nonBrowserVars

\* the free guard and the threads that may call the fetchers
BrowserStart(threads) ==
    /\ sync_guard = 0
    /\ cpc = [t \in threads |-> "idle"]
    /\ child = [t \in threads |-> "none"]
    /\ browser = [t \in threads |-> "none"]
    /\ cres = [t \in threads |-> NoCall]
    /\ ccalls = 0
    /\ upc = "idle"
    /\ uleader = "none"
    /\ uchrome = "none"
    /\ ures = NoCall

\* nothing calls the browser-backed fetchers
BrowserIdle == BrowserStart({})

-----------------------------------------------------------------------------
(***************************************************************************)
(* quality_checks.check_content_quality and the benchmark's                *)
(* evaluate_quality.  A text is the sequence of its lines (the pieces      *)
(* between "\n").                                                          *)
(***************************************************************************)

CLOUDFLARE_INDICATORS ==
    {"Just a moment", "checking your browser", "Cloudflare", "Ray ID",
     "enable JavaScript", "challenge passed"}

PAYWALL_INDICATORS ==
    {"Get Access", "Purchase this article", "Get Institutional Access",
     "full access to this article", "subscription options",
     "Already a subscriber", "purchase options"}

UI_INDICATORS ==
    {"Please choose", "Sign in", "Register", "Subscribe",
     "Select your specialty", "I'm not a medical professional",
     "Log in to continue", "Create account", "Why publish in",
     "Click below to find out", "Sponsored by"}

\* the lines texts are made of; "p100" and "p99" stand for a paragraph of
\* 100 and of 99 plain words
QualityLines ==
    {"", " ", "text", "text ", "text\rtext", "p100", "p99", "1. Smith, J",
     "Just a moment... Cloudflare", "ray id",
     "Get Access - purchase options", "already a subscriber",
     "Sign in or Register", "sign in or register", "Subscribe"}

\* the indicators that occur in a line as they are written
CSHits(line) ==
    CASE line = "Just a moment... Cloudflare"
             -> {"Just a moment", "Cloudflare"}
      [] line = "Get Access - purchase options"
             -> {"Get Access", "purchase options"}
      [] line = "Sign in or Register" -> {"Sign in", "Register"}
      [] line = "Subscribe"           -> {"Subscribe"}
      [] OTHER                        -> {}

\* the indicators ind with ind.lower() in line.lower()
CIHits(line) ==
    CASE line = "ray id"               -> {"Ray ID"}
      [] line = "already a subscriber" -> {"Already a subscriber"}
      [] line = "sign in or register"  -> {"Sign in", "Register"}
      [] OTHER                         -> CSHits(line)

\* REFERENCE_PATTERN.match(line): ^\d+\.\s+[A-Z][a-z]+,?\s+[A-Z]
MatchesReferencePattern(line) == line = "1. Smith, J"

\* len(line.split())
Words(line) ==
    CASE line \in {"", " "}                      -> 0
      [] line = "p100"                           -> 100
      [] line = "p99"                            -> 99
      [] line = "text"                           -> 1
      [] line \in {"text\rtext", "ray id"}       -> 2
      [] line \in {"1. Smith, J", "already a subscriber"} -> 3
      [] line = "Subscribe"                      -> 1
      [] line \in {"Just a moment... Cloudflare",
                   "Sign in or Register", "sign in or register"} -> 4
      [] line = "Get Access - purchase options"  -> 5
      [] line = "[Google Scholar](https://scholar.google.com/x)" -> 2
      [] line = "1. Ref [Google Scholar]"        -> 4
      [] OTHER                                   -> 1

RECURSIVE WordCount(_)
\* len(content.split())
WordCount(content) ==
    IF content = <<>> THEN 0
    ELSE Words(content[1]) + WordCount(Tail(content))

\* not content or not content.strip()
IsBlank_Never(content) == FALSE

IsBlank(content) == \A i \in 1..Len(content) : Strip(content[i]) = ""

\* [line.strip() for line in lines if line.strip()]
NonEmptyLines(lines) ==
    SelectSeq([i \in 1..Len(lines) |-> Strip(lines[i])],
              LAMBDA line : line # "")

\* content.split('\n')
SplitNewline(content) == IF content = <<>> THEN <<"">> ELSE content

\* sum(1 for ind in indicators if ind.lower() in content_lower)
CountLower(indicators, content) ==
    Cardinality({ind \in indicators :
                    \E i \in 1..Len(content) : ind \in CIHits(content[i])})

\* sum(1 for ind in indicators if ind in content)
CountCase(indicators, content) ==
    Cardinality({ind \in indicators :
                    \E i \in 1..Len(content) : ind \in CSHits(content[i])})

\* sum(1 for line in non_empty_lines if REFERENCE_PATTERN.match(line))
ReferenceLines(non_empty_lines) ==
    Cardinality({i \in 1..Len(non_empty_lines) :
                    MatchesReferencePattern(non_empty_lines[i])})

\* len(non_empty_lines) > 10 and reference_lines / len(non_empty_lines) > 0.7
ReferencesOnly(non_empty_lines) ==
    /\ Len(non_empty_lines) > 10
    /\ 10 * ReferenceLines(non_empty_lines) > 7 * Len(non_empty_lines)

QualityResult(is_failure, reason) ==
    [is_failure |-> is_failure, reason |-> reason]

\* does the check of the given name fire, lines 82-112
RuleFires(rule, content) ==
    CASE rule = "cloudflare"
             -> CountLower(CLOUDFLARE_INDICATORS, content) >= 2
      [] rule = "paywall"
             -> CountLower(PAYWALL_INDICATORS, content) >= 2
      [] rule = "ui"
             -> CountCase(UI_INDICATORS, content) >= 2
      [] rule = "references"
             -> ReferencesOnly(NonEmptyLines(SplitNewline(content)))

\* the reason each check returns
RuleReason(rule) ==
    CASE rule = "cloudflare"
             -> "Cloudflare protection blocked content access"
      [] rule = "paywall"    -> "content behind paywall"
      [] rule = "ui"         -> "content appears to be UI elements"
      [] rule = "references"
             -> "content appears to be references section only"

\* the checks with the paywall check ahead of the Cloudflare check
RuleOrder_PaywallFirst == <<"paywall", "cloudflare", "ui", "references">>

\* the checks in the order of the if statements, lines 81-112
RuleOrder == <<"cloudflare", "paywall", "ui", "references">>

RECURSIVE FirstFiring(_, _)
\* the chain of if statements: the first check that fires returns
FirstFiring(rules, content) ==
    IF rules = <<>> THEN QualityResult(FALSE, "")
    ELSE IF RuleFires(rules[1], content)
    THEN QualityResult(TRUE, RuleReason(rules[1]))
    ELSE FirstFiring(Tail(rules), content)

(* quality_checks.check_content_quality *)
check_content_quality(content) ==
    IF IsBlank(content)
    THEN QualityResult(TRUE, "empty content")
    ELSE IF NonEmptyLines(SplitNewline(content)) = <<>>
    THEN QualityResult(TRUE, "empty content")
    ELSE FirstFiring(RuleOrder, content)

(* quality_checks.is_low_quality *)
is_low_quality(content) == check_content_quality(content).is_failure

QualityMetrics(word_count, is_paywall, is_ui_elements, is_references_only) ==
    [word_count |-> word_count, is_paywall |-> is_paywall,
     is_ui_elements |-> is_ui_elements,
     is_references_only |-> is_references_only]

(* extraction_benchmark.metrics.evaluate_quality *)
evaluate_quality(content) ==
    IF IsBlank(content)
    THEN QualityMetrics(0, FALSE, FALSE, FALSE)
    ELSE LET non_empty_lines == NonEmptyLines(SplitLines(content))
         IN QualityMetrics(WordCount(content),
                           CountLower(PAYWALL_INDICATORS, content) >= 2,
                           CountCase(UI_INDICATORS, content) >= 2,
                           ReferencesOnly(non_empty_lines))

\* a run of lines: a line and how many times it is repeated
Reps == {3, 8}
Segs ==
    {<<line, 1>> : line \in QualityLines}
        \cup {<<line, r>> : line \in {"text", "1. Smith, J"}, r \in Reps}

RECURSIVE Expand(_)
Expand(segs) ==
    IF segs = <<>> THEN <<>>
    ELSE [i \in 1..segs[1][2] |-> segs[1][1]] \o Expand(Tail(segs))

\* the texts of at most n runs of lines
TextsOf(n) == {Expand(segs) : segs \in UNION {[1..k -> Segs] : k \in 0..n}}

\* the functions have not been called
NotCalled == <<>>

CheckQuality ==
    /\ q_result = NotCalled
    /\ q_result' = <<check_content_quality(q_content)>>
    /\ UNCHANGED <<q_content, q_metrics>>
    /\ UNCHANGED nonQualityVars

EvaluateQuality ==
    /\ q_metrics = NotCalled
    /\ q_metrics' = <<evaluate_quality(q_content)>>
    /\ UNCHANGED <<q_content, q_result>>
    /\ UNCHANGED nonQualityVars

QualityStart(texts) ==
    /\ q_content \in texts
    /\ q_result = NotCalled
    /\ q_metrics = NotCalled

QualityIdle == QualityStart({<<>>})

-----------------------------------------------------------------------------
(***************************************************************************)
(* content_cleaner.extract_content: trafilatura first, readability-lxml    *)
(* when trafilatura raises or its text is rejected.                        *)
(***************************************************************************)

(* content_cleaner._clean_extracted_text *)
clean_extracted_text(text) ==
    LET split == SplitLines(text)
        lines == [i \in 1..Len(split) |-> Rstrip(split[i])]
    IN SelectSeq(lines, LAMBDA line : Strip(line) # "")

\* what trafilatura.extract can answer: an exception, None or a text
PrimaryRaised == [kind |-> "raised", content |-> <<>>]
PrimaryNone == [kind |-> "none", content |-> <<>>]
PrimaryText(content) == [kind |-> "text", content |-> content]
PrimaryAnswers ==
    {PrimaryRaised, PrimaryNone}
        \cup {PrimaryText(t) : t \in TextsOf(MaxExtractSegs)}

\* what markdownify can produce from the readability summary
FallbackMarkdowns ==
    {<<>>, <<"text">>, <<"text ", "", "text">>,
     <<"Just a moment... Cloudflare">>, <<"p100">>}

\* word_count = len(content.split()) if content else 0
PrimaryWordCount(answer) ==
    IF answer.kind = "text" THEN WordCount(answer.content) ELSE 0

\* accepted whatever the quality check says
Accepted_NoQualityGate(answer) ==
    /\ answer.kind # "raised"
    /\ PrimaryWordCount(answer) >= 100

\* the try block reaches its return statement, line 100
Accepted(answer) ==
    /\ answer.kind # "raised"
    /\ PrimaryWordCount(answer) >= 100
    /\ ~is_low_quality(answer.content)

\* lines 86-106: the call of trafilatura.extract and the decision
ExtractPrimary ==
    /\ x_pc = "start"
    /\ \E answer \in PrimaryAnswers :
        /\ x_primary' = answer
        /\ x_primary_runs' = x_primary_runs + 1
        /\ IF Accepted(answer)
           THEN /\ x_out' = clean_extracted_text(answer.content)
                /\ x_source' = "trafilatura"
                /\ x_pc' = "returned"
           ELSE /\ x_pc' = "fallback"
                /\ UNCHANGED <<x_out, x_source>>
    /\ UNCHANGED <<x_markdown, x_fallback_runs>>
    /\ UNCHANGED nonExtractVars

\* lines 108-129: readability, tag stripping, markdownify
ExtractFallback ==
    /\ x_pc = "fallback"
    /\ \E markdown \in FallbackMarkdowns :
        /\ x_markdown' = markdown
        /\ x_out' = clean_extracted_text(markdown)
    /\ x_fallback_runs' = x_fallback_runs + 1
    /\ x_source' = "readability"
    /\ x_pc' = "returned"
    /\ UNCHANGED <<x_primary, x_primary_runs>>
    /\ UNCHANGED nonExtractVars

ExtractStart(at) ==
    /\ x_pc = at
    /\ x_primary = PrimaryNone
    /\ x_markdown = <<>>
    /\ x_out = <<>>
    /\ x_source = "none"
    /\ x_primary_runs = 0
    /\ x_fallback_runs = 0

ExtractIdle == ExtractStart("idle")

-----------------------------------------------------------------------------
(***************************************************************************)
(* cli._fetch_and_extract_article from the fetched text on (lines          *)
(* 226-322): the text goes through strip_cruft, is validated, and on the   *)
(* HTML path is replaced by the markdown of a refetch when it is rejected. *)
(***************************************************************************)

\* the lines the texts of this part are made of
CruftLines ==
    {"", "text", "text ", "text\rtext", "p100",
     "Just a moment... Cloudflare",
     "[Google Scholar](https://scholar.google.com/x)", "<https://a.example>",
     "1. Ref [Google Scholar]", "https://doi.org/x", " https://doi.org/x"}

\* the texts of at most n lines
CruftTexts(n) == UNION {[1..k -> CruftLines] : k \in 0..n}

\* what _fetch_markdown_fallback(url, allow_cache=False) can answer
RefetchAnswers ==
    {[raised |-> TRUE, content |-> <<>>]}
        \cup {[raised |-> FALSE, content |-> t] :
                t \in {<<"text">>, <<"p100">>,
                       <<"p100", "https://doi.org/x">>,
                       <<"1. Ref [Google Scholar]", "p100">>,
                       <<"p100", "Just a moment... Cloudflare">>}}

\* format: the format of the outcome of fetch_article; content: what
\* extract_content returned (html) or the fetched markdown; fallback: the
\* answer of the refetch
CruftInputs(n) ==
    [format : {"html", "markdown"}, content : CruftTexts(n),
     fallback : RefetchAnswers]

\* the refetched markdown passed on as it came
RefetchText_Raw(fallback_content) == fallback_content

\* line 272: content_text = strip_cruft(fallback_outcome.content)
RefetchText(fallback_content) == strip_cruft(fallback_content)

\* lines 298-322: the final validation of content_text
FinalCheck(u, content_text, suffix) ==
    IF WordCount(content_text) < 100
    THEN Returned(None,
                  Some(Failure(u, <<"only N words extracted">> \o suffix)))
    ELSE IF check_content_quality(content_text).is_failure
    THEN Returned(None,
                  Some(Failure(u,
                               <<check_content_quality(content_text).reason>>)))
    ELSE Returned(Some(ArticleData(u, content_text)), None)

\* lines 226-322
FetchAndExtractText(u, in) ==
    IF IsBlank(in.content)
    THEN Returned(None,
                  Some(Failure(u,
                      IF in.format = "html"
                      THEN <<"clean failed: ", "no content extracted">>
                      ELSE <<"clean failed: empty markdown">>)))
    ELSE LET content_text == strip_cruft(in.content)
             word_count == WordCount(content_text)
             quality == check_content_quality(content_text)
             should_retry == word_count < 100 \/ quality.is_failure
             retry_reason == IF word_count < 100
                             THEN <<"insufficient content (N words)">>
                             ELSE <<quality.reason>>
         IN IF should_retry /\ in.format = "html"
            THEN IF in.fallback.raised
                 THEN Returned(None, Some(Failure(u, retry_reason)))
                 ELSE FinalCheck(u, RefetchText(in.fallback.content),
                                 <<" (after fallback)">>)
            ELSE FinalCheck(u, content_text, <<>>)

StripCruft ==
    /\ k_in # NotCalled
    /\ k_stripped = NotCalled
    /\ k_stripped' = <<strip_cruft(k_in[1].content)>>
    /\ UNCHANGED <<k_in, k_result>>
    /\ UNCHANGED nonCruftVars

FetchAndExtractContent ==
    /\ k_in # NotCalled
    /\ k_result = NotCalled
    /\ k_result' = <<FetchAndExtractText(LinkUrl(1), k_in[1])>>
    /\ UNCHANGED <<k_in, k_stripped>>
    /\ UNCHANGED nonCruftVars

CruftStart(inputs) ==
    /\ k_in \in inputs
    /\ k_stripped = NotCalled
    /\ k_result = NotCalled

CruftIdle == CruftStart({NotCalled})

-----------------------------------------------------------------------------
(***************************************************************************)
(* summarizer: the text of an LLM answer.  A text is the sequence of its   *)
(* pieces: the characters that the parsers look at (white space, digits,   *)
(* sentence ends, list markers) are pieces of their own, and a run of      *)
(* other characters is one piece.  "[rocket]", "[map]", "[eyes]", "[red]", *)
(* "[yellow]" and "[black]" stand for the emoji-only tags, "(bullet)" for  *)
(* the Unicode bullet.                                                     *)
(***************************************************************************)

IsSpace(piece) == piece \in {" ", "\n"}

\* str.isdigit() of a character
IsDigit(piece) == piece \in {"0", "1", "2", "3", "4", "7"}

\* the JSON documents an answer can be
JsonDocs ==
    {"{bullets: KF, TW [SHIP NOW], MS [URGENT], C}",
     "{bullets: C, MS, TW, KF}",
     "{bullets: KF, TW}",
     "{bullets: }",
     "{bullets: {label: KF}}",
     "{bullets: abc}",
     "{summary: x}",
     "null"}

\* len() of a piece
PieceLen(piece) ==
    CASE piece \in {" ", "\n", ".", "!", "?", ")", "-", "*", "0", "1", "4", "7",
                    ":", "(bullet)"} -> 1
      [] piece = "**"            -> 2
      [] piece \in {"One", "Two"} -> 3
      [] piece = "KEY FINDING"   -> 11
      [] piece = "TACTICAL WIN"  -> 12
      [] piece = "MARKET SIGNAL" -> 13
      [] piece = "CONCERN"       -> 7
      [] piece = "CONCERNS"      -> 8
      [] piece = "METHODOLOGY"   -> 11
      [] piece = "IMPLICATION"   -> 11
      [] piece = "KEY DEVELOPMENT" -> 15
      [] piece = "ANNOUNCEMENT"  -> 12
      [] piece = "STRATEGIC MOVE" -> 14
      [] piece = "TIMELINE"      -> 8
      [] piece = "THESIS"        -> 6
      [] piece = "EVIDENCE"      -> 8
      [] piece = "COUNTERPOINT"  -> 12
      [] piece = "CREDIBILITY"   -> 11
      [] piece \in {"[rocket]", "[map]", "[eyes]", "[red]", "[yellow]",
                    "[black]"}   -> 3
      [] piece = "[SHIP NOW]"    -> 10
      [] piece = "[rocket SHIP NOW]" -> 12
      [] piece = "[ship now]"    -> 10
      [] piece = "[WATCH]"       -> 7
      [] piece = "[URGENT]"      -> 8
      [] piece = "[Production]"  -> 12
      [] piece = "[TAG]"         -> 5
      [] piece = "[tag]"         -> 5
      [] piece = "prose100"      -> 100
      [] piece = "prose2000"     -> 2000
      [] piece = "{bullets: KF, TW [SHIP NOW], MS [URGENT], C}" -> 300
      [] piece = "{bullets: C, MS, TW, KF}" -> 90
      [] piece = "{bullets: KF, TW}" -> 150
      [] piece = "{bullets: }"   -> 15
      [] piece = "{bullets: {label: KF}}" -> 40
      [] piece = "{bullets: abc}" -> 18
      [] piece = "{summary: x}"  -> 16
      [] piece = "null"          -> 4
      [] OTHER                   -> 1

RECURSIVE TextLen(_)
\* len(text)
TextLen(text) ==
    IF text = <<>> THEN 0 ELSE PieceLen(text[1]) + TextLen(Tail(text))

RECURSIVE LStripText(_)
LStripText(text) ==
    IF text # <<>> /\ IsSpace(text[1]) THEN LStripText(Tail(text)) ELSE text

RECURSIVE RStripText(_)
RStripText(text) ==
    IF text # <<>> /\ IsSpace(Last(text))
    THEN RStripText(SubSeq(text, 1, Len(text) - 1))
    ELSE text

\* text.strip()
StripText(text) == RStripText(LStripText(text))

RECURSIVE TextLines(_, _, _, _)
\* text.splitlines(): TextLines(text, 1, <<>>, <<>>)
TextLines(text, i, line, lines) ==
    IF i > Len(text)
    THEN IF line # <<>> THEN Append(lines, line) ELSE lines
    ELSE IF text[i] = "\n"
    THEN TextLines(text, i + 1, <<>>, Append(lines, line))
    ELSE TextLines(text, i + 1, Append(line, text[i]), lines)

RECURSIVE JoinLines(_)
\* "\n".join(lines)
JoinLines(lines) ==
    IF lines = <<>> THEN <<>>
    ELSE IF Len(lines) = 1 THEN lines[1]
    ELSE lines[1] \o <<"\n">> \o JoinLines(Tail(lines))

\* re.sub of the tag patterns and the placeholder replacements on one piece:
\* \[(?:[^\]]*\s+)?SHIP NOW\] etc., ignoring case; '[TAG]' as it is written
NormalizeTag(piece) ==
    CASE piece \in {"[SHIP NOW]", "[rocket SHIP NOW]", "[ship now]"}
             -> "[rocket]"
      [] piece = "[WATCH]"  -> "[eyes]"
      [] piece = "[URGENT]" -> "[red]"
      [] piece = "[TAG]"    -> "[yellow]"
      [] OTHER              -> piece

(* summarizer._normalize_bullet_tags *)
normalize_bullet_tags(bullet) ==
    [i \in 1..Len(bullet) |-> NormalizeTag(bullet[i])]

\* a sentence end that is never taken to be inside a number
InsideNumber_Never(prev_char, next_char) == FALSE

\* prev_char.isdigit() and (next_char.isdigit() or next_char == ")")
InsideNumber(prev_char, next_char) ==
    IsDigit(prev_char) /\ (IsDigit(next_char) \/ next_char = ")")

RECURSIVE SentenceLoop(_, _, _, _)
\* the loop of _sentence_split: SentenceLoop(text, 1, <<>>, <<>>)
SentenceLoop(text, i, buffer, sentences) ==
    IF i > Len(text)
    THEN IF StripText(buffer) # <<>>
         THEN Append(sentences, StripText(buffer))
         ELSE sentences
    ELSE LET char == text[i]
             buffered == Append(buffer, char)
             next_char == IF i + 1 <= Len(text) THEN text[i + 1] ELSE ""
             prev_char == IF i > 1 THEN text[i - 1] ELSE ""
         IN IF char \in {".", "!", "?"}
            THEN IF InsideNumber(prev_char, next_char)
                 THEN SentenceLoop(text, i + 1, buffered, sentences)
                 ELSE SentenceLoop(text, i + 1, <<>>,
                                   IF StripText(buffered) # <<>>
                                   THEN Append(sentences, StripText(buffered))
                                   ELSE sentences)
            ELSE SentenceLoop(text, i + 1, buffered, sentences)

(* summarizer._sentence_split *)
sentence_split(text) ==
    LET sentences == SentenceLoop(text, 1, <<>>, <<>>)
    IN SubSeq(sentences, 1, IF Len(sentences) < 4 THEN Len(sentences) ELSE 4)

\* line.startswith("- ") or "* " or the Unicode bullet and a space
HasMarker(line) ==
    Len(line) >= 2 /\ line[1] \in {"-", "*", "(bullet)"} /\ line[2] = " "

\* line[0].isdigit() and line[1:3] in {". ", ") "}
HasNumber(line) ==
    /\ Len(line) >= 3
    /\ IsDigit(line[1])
    /\ line[2] \in {".", ")"}
    /\ line[3] = " "

RECURSIVE MarkedLines(_)
\* the loop of _parse_bullets_text over the lines
MarkedLines(lines) ==
    IF lines = <<>> THEN <<>>
    ELSE LET line == lines[1]
         IN (IF HasMarker(line)
             THEN <<StripText(SubSeq(line, 3, Len(line)))>>
             ELSE IF HasNumber(line)
             THEN <<StripText(SubSeq(line, 4, Len(line)))>>
             ELSE <<>>) \o MarkedLines(Tail(lines))

\* the text parser without the normalization of the tags
parse_bullets_text_Unnormalized(output) ==
    LET split == TextLines(output, 1, <<>>, <<>>)
        lines == SelectSeq([i \in 1..Len(split) |-> StripText(split[i])],
                           LAMBDA line : line # <<>>)
        marked == MarkedLines(lines)
    IN SelectSeq(IF marked = <<>> /\ output # <<>>
                 THEN sentence_split(output)
                 ELSE marked,
                 LAMBDA bullet : bullet # <<>>)

(* summarizer._parse_bullets_text *)
parse_bullets_text(output) ==
    LET split == TextLines(output, 1, <<>>, <<>>)
        lines == SelectSeq([i \in 1..Len(split) |-> StripText(split[i])],
                           LAMBDA line : line # <<>>)
        marked == MarkedLines(lines)
        bullets == IF marked = <<>> /\ output # <<>>
                   THEN sentence_split(output)
                   ELSE marked
        kept == SelectSeq(bullets, LAMBDA bullet : bullet # <<>>)
    IN [i \in 1..Len(kept) |-> normalize_bullet_tags(kept[i])]

JsonEntry(label, text) == [label |-> label, text |-> text]

\* json.loads(raw_output): JSONDecodeError, or the value; of a value only
\* what _parse_bullets asks is kept: is it an object with a "bullets" key,
\* can every entry of data["bullets"] be read as b['label'], b['text'],
\* and the entries
JSONDecodeError == [decoded |-> FALSE, has_bullets |-> FALSE,
                    readable |-> FALSE, bullets |-> <<>>]
JsonValue(has_bullets, readable, bullets) ==
    [decoded |-> TRUE, has_bullets |-> has_bullets, readable |-> readable,
     bullets |-> bullets]
JsonLoads(raw_output) ==
    LET text == StripText(raw_output)
    IN IF Len(text) # 1 \/ text[1] \notin JsonDocs THEN JSONDecodeError
       ELSE CASE text[1] = "{bullets: KF, TW [SHIP NOW], MS [URGENT], C}"
                    -> JsonValue(TRUE, TRUE,
                         <<JsonEntry(<<"KEY FINDING">>, <<"One">>),
                           JsonEntry(<<"TACTICAL WIN", " ", "[SHIP NOW]">>,
                                     <<"Two">>),
                           JsonEntry(<<"MARKET SIGNAL", " ", "[URGENT]">>,
                                     <<"One", ".">>),
                           JsonEntry(<<"CONCERN">>, <<"Two">>)>>)
              [] text[1] = "{bullets: C, MS, TW, KF}"
                    -> JsonValue(TRUE, TRUE,
                         <<JsonEntry(<<"CONCERN">>, <<"One">>),
                           JsonEntry(<<"MARKET SIGNAL">>, <<"Two">>),
                           JsonEntry(<<"TACTICAL WIN">>, <<"One">>),
                           JsonEntry(<<"KEY FINDING">>, <<"Two">>)>>)
              [] text[1] = "{bullets: KF, TW}"
                    -> JsonValue(TRUE, TRUE,
                         <<JsonEntry(<<"KEY FINDING">>, <<"One">>),
                           JsonEntry(<<"TACTICAL WIN">>, <<"Two">>)>>)
              [] text[1] = "{bullets: }"
                    -> JsonValue(TRUE, TRUE, <<>>)
              [] text[1] = "{bullets: {label: KF}}"
                    -> JsonValue(TRUE, FALSE, <<>>)
              [] text[1] = "{bullets: abc}"
                    -> JsonValue(TRUE, FALSE, <<>>)
              [] text[1] = "{summary: x}"
                    -> JsonValue(FALSE, FALSE, <<>>)
              [] text[1] = "null"
                    -> JsonValue(FALSE, FALSE, <<>>)

\* f"**{b['label']}**: {b['text']}"
LabelledBullet(b) == <<"**">> \o b.label \o <<"**", ":", " ">> \o b.text

\* are the bullets taken from the JSON value, lines 718-721
JsonFirst(data) == data.decoded /\ data.has_bullets /\ data.readable

(* summarizer._parse_bullets *)
parse_bullets(raw_output) ==
    LET data == JsonLoads(raw_output)
    IN IF JsonFirst(data)
       THEN [i \in 1..Len(data.bullets) |-> LabelledBullet(data.bullets[i])]
       ELSE parse_bullets_text(raw_output)

\* required_labels of _validate_bullet_structure
required_labels ==
    << <<"**", "KEY FINDING", "**">>, <<"**", "TACTICAL WIN">>,
       <<"**", "MARKET SIGNAL">>, <<"**", "CONCERN", "**">> >>

\* the labels that are not in "\n".join(bullets)
missing_labels(bullets) ==
    SelectSeq(required_labels,
              LAMBDA label : ~Contains(JoinLines(bullets), label))

\* the structured branch with the labels not looked at
Structured_AnyLabels(bullets) == 3 <= Len(bullets) /\ Len(bullets) <= 4

\* lines 609-623: 3-4 bullets and no label missing
Structured(bullets) ==
    /\ 3 <= Len(bullets) /\ Len(bullets) <= 4
    /\ missing_labels(bullets) = <<>>

\* lines 627-631: the prose fallback
Prose(raw_output) ==
    /\ 100 <= TextLen(StripText(raw_output))
    /\ TextLen(StripText(raw_output)) <= 2000

RECURSIVE CommaJoin(_)
\* ', '.join(labels)
CommaJoin(labels) ==
    IF labels = <<>> THEN <<>>
    ELSE IF Len(labels) = 1 THEN labels[1]
    ELSE labels[1] \o <<", ">> \o CommaJoin(Tail(labels))

(* summarizer._validate_bullet_structure: (is_valid, error_message) *)
validate_bullet_structure(bullets, raw_output) ==
    IF Structured(bullets) THEN <<TRUE, <<>>>>
    ELSE IF Prose(raw_output) THEN <<TRUE, <<>>>>
    ELSE IF Len(bullets) < 3
    THEN <<FALSE, <<"Expected 3-4 bullets, got ", ToString(Len(bullets)),
                    ", and output not valid prose (",
                    ToString(TextLen(StripText(raw_output))), " chars)">>>>
    ELSE IF Len(bullets) > 4
    THEN <<FALSE, <<"Expected 3-4 bullets, got ", ToString(Len(bullets))>>>>
    ELSE <<FALSE, <<"Expected 3-4 bullets with required labels, got ",
                    ToString(Len(bullets)), " bullets with missing labels: ">>
                  \o CommaJoin(missing_labels(bullets))>>

\* the parts raw outputs are put together from: list lines, sentences,
\* decimals, prose of 100 and of 2000 characters, white space
RawParts ==
    { <<"-", " ", "**", "KEY FINDING", "**", ":", " ", "One", "\n",
        "*", " ", "**", "TACTICAL WIN", " ", "[SHIP NOW]", "**", ":", " ",
        "Two", "\n">>,
      <<"1", ".", " ", "**", "MARKET SIGNAL", " ", "[Production]", "**", ":",
        " ", "One", "\n",
        "-", " ", "**", "CONCERN", "**", ":", " ", "Two", "\n">>,
      <<"-", " ", "**", "CONCERN", "**", ":", " ", "Two", "\n",
        "(bullet)", " ", "**", "MARKET SIGNAL", "**", ":", " ", "One", "\n">>,
      <<"-", " ", "KEY FINDING", ":", " ", "One", "\n",
        "-", " ", "**", "TACTICAL WIN", "**", ":", " ", "Two", "\n">>,
      <<"-", " ", "**", "CONCERNS", "**", ":", " ", "[rocket SHIP NOW]", "\n">>,
      <<"**", "KEY FINDING", "**", ":", " ", "One", ".", " ",
        "**", "TACTICAL WIN", " ", "[tag]", "**", ":", " ", "Two", ".", " ">>,
      <<"**", "MARKET SIGNAL", " ", "[TAG]", "**", ":", " ", "One", "!", " ",
        "**", "CONCERN", "**", ":", " ", "Two", "?", " ">>,
      <<"One", " ", "0", ".", "7", "4", " ", "Two", ".", " ">>,
      <<"One", " ", "4", ".", ")", " ">>,
      <<"[WATCH]", " ", "prose100", " ">>,
      <<"prose2000">>,
      <<" ", "\n">>,
      <<"-", " ", "One", "\n">> }

RECURSIVE Concat(_)
Concat(parts) ==
    IF parts = <<>> THEN <<>> ELSE parts[1] \o Concat(Tail(parts))

\* the raw outputs made of at most n parts, and the JSON documents
RawOutputsOf(n) ==
    {Concat(parts) : parts \in UNION {[1..k -> RawParts] : k \in 0..n}}
        \cup {<<doc>> : doc \in JsonDocs}

Parse ==
    /\ p_raw # NotCalled
    /\ p_bullets = NotCalled
    /\ p_bullets' = <<parse_bullets(p_raw[1])>>
    /\ UNCHANGED <<p_raw, p_valid>>
    /\ UNCHANGED nonParseVars

Validate ==
    /\ p_bullets # NotCalled
    /\ p_valid = NotCalled
    /\ p_valid' = <<validate_bullet_structure(p_bullets[1], p_raw[1])>>
    /\ UNCHANGED <<p_raw, p_bullets>>
    /\ UNCHANGED nonParseVars

ParseStart(raws) ==
    /\ p_raw \in raws
    /\ p_bullets = NotCalled
    /\ p_valid = NotCalled

ParseIdle == ParseStart({NotCalled})

-----------------------------------------------------------------------------
(* Summarizer/summarizer.py: summarize_article, classify_article_type and
   _run_with_ollama.  The answers of the backends are inputs. *)

\* max_attempts of summarize_article
max_attempts == 2

\* config.ARTICLE_TYPES
ARTICLE_TYPES == {"RESEARCH", "NEWS", "OPINION", "PRESS_RELEASE"}

\* str.upper() of a piece
Upper(piece) ==
    CASE piece = "research"      -> "RESEARCH"
      [] piece = "Opinion"       -> "OPINION"
      [] piece = "press release" -> "PRESS RELEASE"
      [] piece = "blog"          -> "BLOG"
      [] OTHER                   -> piece

\* what a call gives: the exception it raises, or "none" and its output
Ok(output) == [raises |-> "none", output |-> output, message |-> <<>>]
Raises(type, message) == [raises |-> type, output |-> <<>>, message |-> message]

\* config.SUMMARY_PROMPTS and SUMMARY_PROMPT_TEMPLATE: the four labels the
\* "Required format" of the prompt asks for, with a tag where it asks for one
PromptLabels(article_type) ==
    CASE article_type = "RESEARCH"
             -> << <<"KEY FINDING">>, <<"METHODOLOGY">>, <<"IMPLICATION">>,
                   <<"CONCERN">> >>
      [] article_type = "NEWS"
             -> << <<"KEY DEVELOPMENT">>, <<"TACTICAL WIN", " ", "[rocket]">>,
                   <<"MARKET SIGNAL", " ", "[red]">>, <<"CONCERN">> >>
      [] article_type = "PRESS_RELEASE"
             -> << <<"ANNOUNCEMENT">>, <<"STRATEGIC MOVE">>, <<"TIMELINE">>,
                   <<"CONCERN">> >>
      [] article_type = "OPINION"
             -> << <<"THESIS">>, <<"EVIDENCE">>, <<"COUNTERPOINT">>,
                   <<"CREDIBILITY">> >>
      [] OTHER
             -> << <<"KEY FINDING">>, <<"TACTICAL WIN", " ", "[rocket]">>,
                   <<"MARKET SIGNAL", " ", "[red]">>, <<"CONCERN">> >>

\* lines 329-332 of _build_prompt: the prompt of the type if there is one,
\* the generic template otherwise
PromptSelected(article_type) ==
    IF article_type \in ARTICLE_TYPES THEN article_type ELSE "default"

\* an answer in the format the prompt asks for: "1. **LABEL**: text" four
\* times, each text one short word
PromptOutput(article_type) ==
    LET labels == PromptLabels(PromptSelected(article_type))
        bullet(n, i) == <<n, ".", " ", "**">> \o labels[i]
                            \o <<"**", ":", " ", "One", "\n">>
    IN bullet("1", 1) \o bullet("2", 2) \o bullet("3", 3) \o bullet("4", 4)

\* the text the model behind a backend can answer a summary prompt with
SummaryOutputs ==
    {PromptOutput(article_type) : article_type \in ARTICLE_TYPES} \cup
    { <<"-", " ", "**", "KEY FINDING", "**", ":", " ", "One", "\n",
        "*", " ", "**", "TACTICAL WIN", " ", "[SHIP NOW]", "**", ":", " ",
        "Two", "\n",
        "1", ".", " ", "**", "MARKET SIGNAL", " ", "[Production]", "**", ":",
        " ", "One", "\n",
        "-", " ", "**", "CONCERN", "**", ":", " ", "Two", "\n">>,
      <<"{bullets: C, MS, TW, KF}">>,
      <<"{bullets: KF, TW}">>,
      <<"{bullets: }">>,
      <<" ", "\n">>,
      <<"-", " ", "One", "\n">>,
      <<"-", " ", "**", "CONCERN", "**", ":", " ", "Two", "\n",
        "(bullet)", " ", "**", "MARKET SIGNAL", "**", ":", " ", "One", "\n",
        "-", " ", "**", "CONCERNS", "**", ":", " ", "[rocket SHIP NOW]", "\n">>,
      <<"prose2000", " ", "One", ".">>,
      <<"[WATCH]", " ", "prose100", ".", " ", "One", ".", "\n">> }

\* the text the model can answer the classification prompt with
TypeOutputs ==
    { <<"NEWS">>, <<" ", "research", "\n">>, <<"Opinion">>,
      <<"PRESS_RELEASE">>, <<"press release">>, <<"blog">>, <<>> }

\* what the HTTP call of _run_with_lmstudio can end in: the stripped content,
\* one of the failures it turns into SummarizerError (timeout, HTTP status,
\* connection, bad JSON), or a content of null, whose len() raises a
\* TypeError that no except clause of lines 541-559 takes
LmStudioAnswers(outputs) ==
    {Ok(StripText(output)) : output \in outputs}
        \cup {Raises("SummarizerError", <<"LM Studio timed out">>),
              Raises("TypeError", <<"object of type 'NoneType' has no len()">>)}

\* what a custom runner can do
RunnerAnswers ==
    {Ok(output) : output \in SummaryOutputs}
        \cup {Raises("SummarizerError", <<"runner gave up">>),
              Raises("RuntimeError", <<"boom">>)}

\* how one subprocess.run of "ollama run" can end: an exit code, the
\* TimeoutExpired of line 585, or the FileNotFoundError of a missing binary
OllamaRuns ==
    {[ends |-> "exit 0", stdout |-> output] : output \in SummaryOutputs}
        \cup {[ends |-> "exit 1", stdout |-> <<>>],
              [ends |-> "timeout", stdout |-> <<>>],
              [ends |-> "FileNotFoundError", stdout |-> <<>>]}

\* the callers and the environments: runner given or not, backend pinned or
\* not, LMSTUDIO_BASE_URL and LMSTUDIO_MODEL set or not, OLLAMA_ENABLED
Envs ==
    [runner : BOOLEAN, backend : {"None", "lmstudio", "ollama"},
     LMSTUDIO_BASE_URL : BOOLEAN, LMSTUDIO_MODEL : BOOLEAN,
     OLLAMA_ENABLED : BOOLEAN]

(* summarizer._run_with_lmstudio: lines 497-502 before the call (cfg.model
   has a default), then the call *)
run_with_lmstudio(env, answer) ==
    IF ~env.LMSTUDIO_BASE_URL
    THEN Raises("SummarizerError", <<"LMSTUDIO_BASE_URL not configured in .env">>)
    ELSE answer

\* does _run_with_lmstudio get as far as the HTTP call
LmStudioCalled(env) == env.LMSTUDIO_BASE_URL

\* the except clause of classify_article_type that only knows SummarizerError
ClassifyCatches_SummarizerErrorOnly(raised) == raised = "SummarizerError"

\* except Exception, line 270
ClassifyCatches(raised) == TRUE

(* summarizer.classify_article_type, for a call that did not raise past it *)
classify_article_type(env, answer) ==
    LET called == run_with_lmstudio(env, answer)
        stripped == StripText(called.output)
        detected_type == [i \in 1..Len(stripped) |-> Upper(stripped[i])]
    IN IF called.raises # "none" THEN "NEWS"
       ELSE IF Len(detected_type) = 1 /\ detected_type[1] \in ARTICLE_TYPES
       THEN detected_type[1]
       ELSE "NEWS"

\* an entry of the history of called_so_far: who was called, with which prompt
BackendCall(what, prompt) == [what |-> what, prompt |-> prompt]

\* _build_prompt(article, article_type): one prompt per article type
build_prompt(article_type) == <<"summary prompt for ", article_type>>

\* a result of summarize_article: a returned dict or a raised exception
SummaryReturned(bullets) ==
    <<[raised |-> "none", message |-> <<>>, summary |-> bullets]>>
SummaryRaised(type, message) ==
    <<[raised |-> type, message |-> message, summary |-> <<>>]>>

\* backend_used, from the call that gave the raw output
backend_used ==
    CASE Last(s_calls).what = "runner"   -> "custom"
      [] Last(s_calls).what = "lmstudio" -> "lmstudio"
      [] OTHER                           -> "ollama"

\* lines 100-107: classify, then build the prompt
Classify ==
    /\ s_pc = "classify"
    /\ \E answer \in LmStudioAnswers(TypeOutputs) :
         LET called == run_with_lmstudio(s_env, answer)
         IN /\ s_calls' = IF LmStudioCalled(s_env)
                          THEN Append(s_calls,
                                      BackendCall("classify", <<"ARTICLE_TYPE_PROMPT">>))
                          ELSE s_calls
            /\ IF called.raises # "none" /\ ~ClassifyCatches(called.raises)
               THEN /\ s_pc' = "raised"
                    /\ s_result' = SummaryRaised(called.raises, called.message)
                    /\ UNCHANGED <<s_article_type, s_attempt>>
               ELSE /\ s_article_type' = classify_article_type(s_env, answer)
                    /\ s_attempt' = 1
                    /\ s_pc' = "backend"
                    /\ UNCHANGED s_result
    /\ UNCHANGED <<s_env, s_raws, s_last_validation_error, o_attempt>>
    /\ UNCHANGED nonSummVars

\* the call gave raw_output: go on to parse it
GotOutput(called_so_far, output) ==
    /\ s_calls' = called_so_far
    /\ s_raws' = Append(s_raws, output)
    /\ s_pc' = "parse"
    /\ UNCHANGED <<s_result, o_attempt>>

\* the call raised out of summarize_article
GaveUp(called_so_far, type, message) ==
    /\ s_calls' = called_so_far
    /\ s_pc' = "raised"
    /\ s_result' = SummaryRaised(type, message)
    /\ UNCHANGED <<s_raws, o_attempt>>

\* _run_with_ollama is entered
EnterOllama(called_so_far) ==
    /\ s_calls' = Append(called_so_far, BackendCall("ollama", build_prompt(s_article_type)))
    /\ s_pc' = "ollama"
    /\ o_attempt' = 0
    /\ UNCHANGED <<s_raws, s_result>>

\* is Ollama tried after LM Studio failed in auto mode: only SummarizerError is
\* caught, and only with the flag the fallback is used
FallsBack_Always(env, raised) == TRUE

\* lines 160-166
FallsBack(env, raised) == raised = "SummarizerError" /\ env.OLLAMA_ENABLED

\* lines 114-175: the backend selection of one attempt, up to the output of
\* the runner or of LM Studio or to the entry of _run_with_ollama
CallBackend ==
    /\ s_pc = "backend"
    /\ LET prompt == build_prompt(s_article_type)
           lmstudio == Append(s_calls, BackendCall("lmstudio", prompt))
       IN IF s_env.runner
          THEN \E answer \in RunnerAnswers :
                 LET called_so_far ==
                         Append(s_calls, BackendCall("runner", prompt))
                 IN IF answer.raises = "none"
                    THEN GotOutput(called_so_far, answer.output)
                    ELSE IF answer.raises = "SummarizerError"
                    THEN GaveUp(called_so_far, "SummarizerError", answer.message)
                    ELSE GaveUp(called_so_far, "SummarizerError",
                                <<"Custom runner failed for ", "url">>)
          ELSE IF s_env.backend = "lmstudio"
          THEN IF ~s_env.LMSTUDIO_BASE_URL \/ ~s_env.LMSTUDIO_MODEL
               THEN GaveUp(s_calls, "SummarizerError",
                           <<"LM Studio backend requested but ",
                             "LMSTUDIO_BASE_URL or LMSTUDIO_MODEL not configured">>)
               ELSE \E answer \in LmStudioAnswers(SummaryOutputs) :
                      IF answer.raises = "none"
                      THEN GotOutput(lmstudio, answer.output)
                      ELSE GaveUp(lmstudio, answer.raises, answer.message)
          ELSE IF s_env.backend = "ollama"
          THEN EnterOllama(s_calls)
          ELSE IF s_env.LMSTUDIO_BASE_URL
          THEN IF ~s_env.LMSTUDIO_MODEL
               THEN GaveUp(s_calls, "SummarizerError",
                           <<"LMSTUDIO_BASE_URL set but ",
                             "LMSTUDIO_MODEL not configured in .env">>)
               ELSE \E answer \in LmStudioAnswers(SummaryOutputs) :
                      IF answer.raises = "none"
                      THEN GotOutput(lmstudio, answer.output)
                      ELSE IF FallsBack(s_env, answer.raises)
                      THEN EnterOllama(lmstudio)
                      ELSE GaveUp(lmstudio, answer.raises, answer.message)
          ELSE GaveUp(s_calls, "SummarizerError",
                      <<"No LLM backend configured. ">>)
    /\ UNCHANGED <<s_env, s_attempt, s_article_type, s_last_validation_error>>
    /\ UNCHANGED nonSummVars

\* a SummarizerError of _run_with_ollama, as summarize_article lets it out:
\* as it is for the pinned backend (line 144), wrapped for the fallback
\* (lines 169-171)
OllamaFailed(called_so_far, message) ==
    IF s_env.backend = "ollama"
    THEN GaveUp(called_so_far, "SummarizerError", message)
    ELSE GaveUp(called_so_far, "SummarizerError",
                <<"Both LM Studio and Ollama failed for ", "url">>)

\* a time-out is answered by a restart on every attempt but the last of three
RestartsAfter_Twice(n) == n <= 1

\* "if attempt == 0", line 586: the restart and the second run
RestartsAfter(n) == n = 0

\* one turn of the loop of _run_with_ollama, lines 573-595: the subprocess
\* run and what follows it, the restart included
OllamaRun ==
    /\ s_pc = "ollama"
    /\ \E run \in OllamaRuns :
         LET called_so_far ==
                 Append(s_calls,
                        BackendCall("run", build_prompt(s_article_type)))
         IN IF run.ends = "exit 0"
            THEN /\ GotOutput(called_so_far, StripText(run.stdout))
            ELSE IF run.ends = "exit 1"
            THEN OllamaFailed(called_so_far, <<"unknown ollama error">>)
            ELSE IF run.ends = "FileNotFoundError"
            THEN GaveUp(called_so_far, "FileNotFoundError",
                        <<"No such file or directory: 'ollama'">>)
            ELSE IF RestartsAfter(o_attempt)
            THEN /\ s_calls' = Append(called_so_far, BackendCall("restart", <<>>))
                 /\ o_attempt' = o_attempt + 1
                 /\ UNCHANGED <<s_pc, s_raws, s_result>>
            ELSE OllamaFailed(called_so_far, <<"Ollama unresponsive (timed out after ",
                                       "OLLAMA_TIMEOUT",
                                       "s); restart failed or still unresponsive">>)
    /\ UNCHANGED <<s_env, s_attempt, s_article_type, s_last_validation_error>>
    /\ UNCHANGED nonSummVars

\* no attempt is followed by another one
Retries_Never(n) == FALSE

\* the for loop of line 113 goes on after a failed validation
Retries(n) == n < max_attempts

\* lines 182-223: parse, validate, and return, retry or raise
ParseAndValidate ==
    /\ s_pc = "parse"
    /\ LET raw_output == Last(s_raws)
           bullets == parse_bullets(raw_output)
           validated == validate_bullet_structure(bullets, raw_output)
       IN IF bullets = <<>>
          THEN /\ s_pc' = "raised"
               /\ s_result' = SummaryRaised("SummarizerError",
                                     <<"No summary bullets returned by ",
                                       backend_used>>)
               /\ UNCHANGED <<s_attempt, s_last_validation_error>>
          ELSE IF validated[1]
          THEN /\ s_pc' = "returned"
               /\ s_result' = SummaryReturned(bullets)
               /\ UNCHANGED <<s_attempt, s_last_validation_error>>
          ELSE /\ s_last_validation_error' = validated[2]
               /\ IF Retries(s_attempt)
                  THEN /\ s_attempt' = s_attempt + 1
                       /\ s_pc' = "backend"
                       /\ UNCHANGED s_result
                  ELSE /\ s_pc' = "raised"
                       /\ s_result' =
                            SummaryRaised("SummarizerError",
                                   <<"Summary validation failed after ",
                                     ToString(max_attempts), " attempts: ">>
                                       \o validated[2])
                       /\ UNCHANGED s_attempt
    /\ UNCHANGED <<s_env, s_article_type, s_raws, s_calls, o_attempt>>
    /\ UNCHANGED nonSummVars

SummStart(envs, at) ==
    /\ s_env \in envs
    /\ s_pc = at
    /\ s_attempt = 0
    /\ s_article_type = "None"
    /\ s_raws = <<>>
    /\ s_last_validation_error = <<>>
    /\ s_calls = <<>>
    /\ s_result = NotCalled
    /\ o_attempt = 0

SummIdle ==
    SummStart({[runner |-> FALSE, backend |-> "None",
                LMSTUDIO_BASE_URL |-> FALSE, LMSTUDIO_MODEL |-> FALSE,
                OLLAMA_ENABLED |-> FALSE]}, "idle")

-----------------------------------------------------------------------------
(* Summarizer/corpus_cache.py: save_corpus and load_corpus.  A file is None
   (missing) or Some(text); the text of a JSON file is the sequence of its
   tokens. *)

\* the most articles of a corpus
MaxArticles == 2

\* json.dumps of a string with ensure_ascii: quotes and non-ASCII escaped
JsonEscape(str) ==
    CASE str = "(e-acute)"  -> "\\u00e9"
      [] str = "say (quote)" -> "say \\(quote)"
      [] OTHER               -> str

\* json.loads of a string token
JsonUnescape(token) ==
    CASE token = "\\u00e9"        -> "(e-acute)"
      [] token = "say \\(quote)"  -> "say (quote)"
      [] OTHER                    -> token

\* f"article-{idx:03d}.content.md" and f"article-{idx:03d}.source.html"
ContentRel(idx) ==
    CASE idx = 0 -> "article-000.content.md"
      [] idx = 1 -> "article-001.content.md"
      [] idx = 2 -> "article-002.content.md"
      [] OTHER   -> "article-NNN.content.md"
HtmlRel(idx) ==
    CASE idx = 0 -> "article-000.source.html"
      [] idx = 1 -> "article-001.source.html"
      [] idx = 2 -> "article-002.source.html"
      [] OTHER   -> "article-NNN.source.html"

\* article.get(key, "")
GetOr(article, key) ==
    IF key \in DOMAIN article THEN article[key] ELSE ""

\* the article dicts save_corpus can be given: all keys, non-ASCII and quoted
\* text, keys missing
CorpusArticles ==
    { [title |-> "First", url |-> "https://a", publisher |-> "P",
       snippet |-> "s", content |-> "# First", raw_html |-> "<html>"],
      [title |-> "(e-acute)", url |-> "https://b", publisher |-> "say (quote)",
       snippet |-> "", content |-> "# Second", raw_html |-> ""],
      [url |-> "https://c", content |-> "# Third"],
      [title |-> "First", url |-> "https://a", publisher |-> "P",
       snippet |-> "s", content |-> "", raw_html |-> "<html>"] }

\* the lists of at most n of them
CorpusLists(n) == UNION {[1..k -> CorpusArticles] : k \in 0..n}

\* lines 98-111: the index entry of article idx (the first one is 0)
CachedEntry(idx, article) ==
    [index            |-> ToString(idx),
     title            |-> GetOr(article, "title"),
     url              |-> GetOr(article, "url"),
     publisher        |-> GetOr(article, "publisher"),
     snippet          |-> GetOr(article, "snippet"),
     content_path     |-> ContentRel(idx),
     source_html_path |-> HtmlRel(idx)]

\* the keys of an index entry, in the order json.dumps writes them
EntryKeys ==
    <<"index", "title", "url", "publisher", "snippet", "content_path",
      "source_html_path">>

\* the tokens json.dumps writes for one index entry
EntryTokens == 2 * Len(EntryKeys) + 2

\* json.dumps of one index entry
DumpsEntry(entry) ==
    <<"{">> \o
    [i \in 1..(2 * Len(EntryKeys)) |->
        IF i % 2 = 1 THEN EntryKeys[(i + 1) \div 2]
        ELSE JsonEscape(entry[EntryKeys[i \div 2]])] \o
    <<"}">>

RECURSIVE DumpsEntries(_)
DumpsEntries(entries) ==
    IF entries = <<>> THEN <<>>
    ELSE DumpsEntry(entries[1]) \o DumpsEntries(Tail(entries))

\* json.dumps(cached_articles, indent=2) + "\n", line 128
DumpsArticles(cached_articles) ==
    <<"[">> \o DumpsEntries(cached_articles) \o <<"]", "\n">>

\* is the text from i on one well-formed index entry
IsEntryAt(text, i) ==
    /\ text[i] = "{"
    /\ text[i + EntryTokens - 1] = "}"
    /\ \A k \in 1..Len(EntryKeys) : text[i + 2 * k - 1] = EntryKeys[k]

\* the index entry read from i on
LoadsEntry(text, i) ==
    [key \in Range(EntryKeys) |->
        JsonUnescape(text[i + 2 * (CHOOSE k \in 1..Len(EntryKeys) :
                                       EntryKeys[k] = key)])]

\* json.loads(articles_json): the list of entries, or JSONDecodeError; white
\* space after the document is allowed
LoadsArticles(articles_json) ==
    LET text == RStripText(articles_json)
        n == (Len(text) - 2) \div EntryTokens
    IN IF /\ Len(text) >= 2
          /\ text[1] = "[" /\ text[Len(text)] = "]"
          /\ (Len(text) - 2) % EntryTokens = 0
          /\ \A j \in 0..(n - 1) : IsEntryAt(text, 2 + j * EntryTokens)
       THEN [decoded |-> TRUE,
             data |-> [j \in 1..n |->
                          LoadsEntry(text, 2 + (j - 1) * EntryTokens)]]
       ELSE [decoded |-> FALSE, data |-> <<>>]

\* hashlib.sha256(text).hexdigest(): a digest no two texts here share
Sha256(text) == <<"sha256(">> \o text \o <<")">>

\* CorpusMetadata, lines 134-139; the clock reads "now"
CorpusMetadata(source_eml, timestamp, article_count, corpus_hash) ==
    [source_eml |-> source_eml, timestamp |-> timestamp,
     article_count |-> article_count, corpus_hash |-> corpus_hash]

\* the files of the directory: none yet
NoFiles ==
    [metadata |-> None, articles |-> None, content |-> <<>>, html |-> <<>>]

(* corpus_cache.save_corpus: the files it writes and the metadata it returns;
   metadata.json is kept as the dict that json.loads reads back from it *)
save_corpus(source_eml, articles) ==
    LET cached_articles ==
            [i \in 1..Len(articles) |-> CachedEntry(i - 1, articles[i])]
        articles_json == DumpsArticles(cached_articles)
        metadata == CorpusMetadata(source_eml, "now", Len(articles),
                                   Sha256(articles_json))
    IN [files |-> [metadata |-> Some(metadata),
                   articles |-> Some(articles_json),
                   content  |-> [i \in 1..Len(articles) |->
                                    GetOr(articles[i], "content")],
                   html     |-> [i \in 1..Len(articles) |->
                                    GetOr(articles[i], "raw_html")]],
        metadata |-> metadata]

\* what load_corpus gives: the tuple it returns or the exception it raises
Loaded(metadata, cached_articles) ==
    [raised |-> "none", message |-> <<>>, metadata |-> <<metadata>>,
     articles |-> cached_articles]
LoadRaised(type, message) ==
    [raised |-> type, message |-> message, metadata |-> <<>>,
     articles |-> <<>>]

\* the hash comparison left out
IntegrityOk_Unchecked(computed_hash, corpus_hash) == TRUE

\* "computed_hash != metadata.corpus_hash", line 178, negated
IntegrityOk(computed_hash, corpus_hash) == computed_hash = corpus_hash

(* corpus_cache.load_corpus *)
load_corpus(files) ==
    IF files.metadata = None
    THEN LoadRaised("ValueError", <<"Missing metadata.json in ", "corpus_dir">>)
    ELSE IF files.articles = None
    THEN LoadRaised("ValueError", <<"Missing articles.json in ", "corpus_dir">>)
    ELSE LET metadata == files.metadata[1]
             articles_json == files.articles[1]
             articles_data == LoadsArticles(articles_json)
             computed_hash == Sha256(articles_json)
         IN IF ~articles_data.decoded
            THEN LoadRaised("JSONDecodeError", <<"Expecting value">>)
            ELSE IF ~IntegrityOk(computed_hash, metadata.corpus_hash)
            THEN LoadRaised("ValueError",
                            <<"Corpus integrity check failed: expected ">>
                                \o metadata.corpus_hash \o <<", got ">>
                                \o computed_hash)
            ELSE Loaded(metadata, articles_data.data)

\* what can be done to articles.json behind the program's back: a title
\* overwritten, white space added at the end, the end of the file cut off
AlteredArticles(text) ==
    {[i \in 1..Len(text) |-> IF i = 6 THEN "CORRUPTED" ELSE text[i]],
     text \o <<" ">>,
     SubSeq(text, 1, Len(text) - 2)} \ {text}

SaveCorpus ==
    /\ d_saved = NotCalled
    /\ d_loaded = NotCalled
    /\ \E articles \in CorpusLists(MaxArticles) :
         LET saved == save_corpus("alert.eml", articles)
         IN /\ d_files' = saved.files
            /\ d_saved' = <<[articles |-> articles, metadata |-> saved.metadata]>>
    /\ UNCHANGED d_loaded
    /\ UNCHANGED nonCorpusVars

\* one change made to the saved files from outside: articles.json altered or
\* deleted, metadata.json deleted, a content file overwritten
AlterFiles ==
    /\ d_saved # NotCalled
    /\ d_loaded = NotCalled
    /\ d_files = save_corpus("alert.eml", d_saved[1].articles).files
    /\ \/ \E text \in AlteredArticles(d_files.articles[1]) :
            d_files' = [d_files EXCEPT !.articles = Some(text)]
       \/ d_files' = [d_files EXCEPT !.articles = None]
       \/ d_files' = [d_files EXCEPT !.metadata = None]
       \/ /\ d_files.content # <<>>
          /\ d_files' = [d_files EXCEPT !.content[1] = "tampered"]
    /\ UNCHANGED <<d_saved, d_loaded>>
    /\ UNCHANGED nonCorpusVars

LoadCorpus ==
    /\ d_loaded = NotCalled
    /\ d_loaded' = <<load_corpus(d_files)>>
    /\ UNCHANGED <<d_files, d_saved>>
    /\ UNCHANGED nonCorpusVars

CorpusStart(at) ==
    /\ d_files = NoFiles
    /\ d_saved = NotCalled
    /\ d_loaded = at

\* load_corpus is never reached
CorpusIdle == CorpusStart(<<"idle">>)

-----------------------------------------------------------------------------
(* clean_markdown_content on its own and on its own output *)

\* the most lines of a markdown text
MaxMdLines == 4

\* the lines a markdown text is made of: text with and without white space
\* at its end, blank lines, lines that open a section, lines that look like
\* one, and one with a "\r" in it
MdLines ==
    {"text", "text ", "", " ", "* [+1 555", "  * [5 x", "## More news",
     "## more", "## Moreover", "text\rtext"}

MdTexts(n) == UNION {[1..k -> MdLines] : k \in 0..n}

CleanMarkdown ==
    /\ m_in # NotCalled
    /\ m_out = NotCalled
    /\ m_out' = <<clean_markdown_content(m_in[1])>>
    /\ UNCHANGED <<m_in, m_again>>
    /\ UNCHANGED nonMdVars

CleanAgain ==
    /\ m_out # NotCalled
    /\ m_again = NotCalled
    /\ m_again' = <<clean_markdown_content(m_out[1].cleaned)>>
    /\ UNCHANGED <<m_in, m_out>>
    /\ UNCHANGED nonMdVars

MdStart(texts) ==
    /\ m_in \in texts
    /\ m_out = NotCalled
    /\ m_again = NotCalled

MdIdle == MdStart({NotCalled})

-----------------------------------------------------------------------------
(***************************************************************************)
(* cli._fetch_and_extract_article, lines 226-322, step by step: the        *)
(* decision to retry, then the call of _fetch_markdown_fallback and the    *)
(* final validation.                                                       *)
(***************************************************************************)

\* _CACHE_MARKDOWN when the worker gets there: empty, or holding the markdown
\* another worker stored for another link or for a link with the same URL
RetryCaches ==
    {EmptyMap, MapSet(EmptyMap, LinkUrl(1), <<"p100">>),
     MapSet(EmptyMap, LinkUrl(2), <<"p100">>)}

RetryInputs(n) ==
    [format : {"html", "markdown"}, content : CruftTexts(n),
     fallback : RefetchAnswers, cache : RetryCaches]

\* the refetch with the cache allowed
RefetchAllowCache_Cached == TRUE

\* line 271: allow_cache=False
RefetchAllowCache == FALSE

\* _fetch_markdown_fallback(u, allow_cache) with _CACHE_MARKDOWN = cache and
\* the providers answering with answer (the cleaned markdown, or both raise)
fetch_markdown_fallback(u, allow_cache, cache, answer) ==
    IF allow_cache /\ u \in DOMAIN cache
    THEN [raised |-> FALSE, content |-> cache[u],
          strategy |-> "url-to-md-cache", cache |-> cache, network |-> FALSE]
    ELSE IF answer.raised
    THEN [raised |-> TRUE, content |-> <<>>, strategy |-> "None",
          cache |-> cache, network |-> TRUE]
    ELSE [raised |-> FALSE, content |-> answer.content,
          strategy |-> "url-to-md",
          cache |-> IF allow_cache THEN MapSet(cache, u, answer.content)
                                   ELSE cache,
          network |-> TRUE]

\* lines 254-264: retry_reason of the content_text that was rejected
RetryReason(content_text) ==
    IF WordCount(content_text) < 100
    THEN <<"insufficient content (N words)">>
    ELSE <<check_content_quality(content_text).reason>>

\* lines 226-267: the text is checked, stripped and judged
RetryExtracted ==
    /\ r_pc = "extracted"
    /\ LET in == r_in[1]
           u == LinkUrl(1)
           content_text == strip_cruft(in.content)
           should_retry ==
               \/ WordCount(content_text) < 100
               \/ check_content_quality(content_text).is_failure
       IN IF IsBlank(in.content)
          THEN /\ r_pc' = "done"
               /\ r_kept' = in.content
               /\ r_result' =
                    <<Returned(None, Some(Failure(u,
                        IF in.format = "html"
                        THEN <<"clean failed: ", "no content extracted">>
                        ELSE <<"clean failed: empty markdown">>)))>>
          ELSE IF should_retry /\ in.format = "html"
          THEN /\ r_pc' = "refetch"
               /\ r_kept' = content_text
               /\ r_result' = r_result
          ELSE /\ r_pc' = "done"
               /\ r_kept' = content_text
               /\ r_result' = <<FinalCheck(u, content_text, <<>>)>>
    /\ UNCHANGED <<r_in, r_cache, r_refetches, r_network>>
    /\ UNCHANGED nonRetryVars

\* lines 268-322: the refetch and the final validation
RetryRefetch ==
    /\ r_pc = "refetch"
    /\ LET u == LinkUrl(1)
           got == fetch_markdown_fallback(u, RefetchAllowCache, r_cache,
                                          r_in[1].fallback)
       IN /\ r_refetches' = r_refetches + 1
          /\ r_network' = got.network
          /\ r_cache' = got.cache
          /\ r_pc' = "done"
          /\ IF got.raised
             THEN /\ r_kept' = r_kept
                  /\ r_result' =
                       <<Returned(None, Some(Failure(u, RetryReason(r_kept))))>>
             ELSE /\ r_kept' = RefetchText(got.content)
                  /\ r_result' =
                       <<FinalCheck(u, RefetchText(got.content),
                                    <<" (after fallback)">>)>>
    /\ UNCHANGED r_in
    /\ UNCHANGED nonRetryVars

RetryStart(inputs, at) ==
    /\ r_in \in inputs
    /\ r_pc = at
    /\ r_cache = IF r_in = NotCalled THEN EmptyMap ELSE r_in[1].cache
    /\ r_kept = <<>>
    /\ r_refetches = 0
    /\ r_network = FALSE
    /\ r_result = NotCalled

RetryIdle == RetryStart({NotCalled}, "idle")

-----------------------------------------------------------------------------
(* Specification of the fetcher *)

vars ==
    <<fetchVars, pipeVars, tallyVars, browserVars,
      qualityVars, extractVars, cruftVars, parseVars, summVars, corpusVars, mdVars, retryVars>>

FetchInit ==
    /\ CACHE_HTML = EmptyMap
    /\ CACHE_MARKDOWN = EmptyMap
    /\ outcome = NoOutcome
    /\ pc = "idle"
    /\ url = <<"h">>
    /\ cfg = [timeout |-> HTTP_TIMEOUT, max_retries |-> 0, allow_cache |-> TRUE]
    /\ attempt = 0
    /\ last_error = NoError
    /\ html_url = <<>>
    /\ trigger = "none"
    /\ exc = NoError
    /\ result = NoResult
    /\ calls = <<>>
    /\ gets = 0
    /\ transport_fails = 0
    /\ fallback_failed = FALSE
    /\ ncalls = 0
    /\ history = EmptyMap

Init ==
    /\ FetchInit /\ PipeIdle /\ TallyIdle /\ BrowserIdle /\ QualityIdle
    /\ ExtractIdle /\ CruftIdle /\ ParseIdle /\ SummIdle /\ CorpusIdle
    /\ MdIdle /\ RetryIdle

Next ==
    \/ \E u \in URLS, c \in FetchConfigs : fetch_article(u, c)
    \/ HttpGet
    \/ SiblingGet
    \/ UrlToMd
    \/ Jina
    \/ clear_cache
    \/ clear_markdown_cache


Spec == Init /\ [][Next]_vars

\* the fetcher with at most MaxFairCalls calls per behaviour
FairNext ==
    \/ \E u \in URLS, c \in FetchConfigs :
         ncalls < MaxFairCalls /\ fetch_article(u, c)
    \/ HttpGet
    \/ SiblingGet
    \/ UrlToMd
    \/ Jina
    \/ clear_cache
    \/ clear_markdown_cache

\* every started call keeps running: each outgoing call has a timeout
FairSpec ==
    /\ Init
    /\ [][FairNext]_vars
    /\ WF_vars(HttpGet \/ SiblingGet \/ UrlToMd \/ Jina)

-----------------------------------------------------------------------------
(* Specification of the pipeline *)

PipeInit ==
    /\ FetchInit
    /\ TallyIdle
    /\ BrowserIdle
    /\ QualityIdle
    /\ ExtractIdle /\ CruftIdle /\ ParseIdle /\ SummIdle /\ CorpusIdle
    /\ MdIdle /\ RetryIdle
    /\ \E n \in 0..MaxLinks, max_articles \in 0..MaxLinks :
         PipeStart(n, max_articles)

PipeNext ==
    \/ \E i \in Indices : StartWorker(i)
    \/ \E i \in Indices : RunWorker(i)
    \/ \E i \in Indices : Collect(i)
    \/ StartPhase2
    \/ BeginSummarize
    \/ Summarize
    \/ ReturnSummaries

PipeSpec == PipeInit /\ [][PipeNext]_vars

\* threads run and every call made has a timeout: the batch keeps moving
PipeFairSpec == PipeSpec /\ WF_vars(PipeNext)

-----------------------------------------------------------------------------
(* Specification of the scheduling of a batch larger than the pool: each   *)
(* article is fetched or fails to be fetched, and each summary is made or  *)
(* fails.                                                                  *)

PoolEnvs ==
    {env \in WorkerEnvs :
        /\ env.fetch \in {"FetchError", "html"}
        /\ env.extract = "ok" /\ env.q1 = "ok" /\ ~env.io}

PoolSummarizeEnvs == {"ok"}

PoolInit ==
    /\ FetchInit /\ PipeStart(MaxPoolLinks, 0) /\ TallyIdle /\ BrowserIdle
    /\ QualityIdle /\ ExtractIdle /\ CruftIdle /\ ParseIdle /\ SummIdle
    /\ CorpusIdle /\ MdIdle /\ RetryIdle

PoolNext ==
    \/ \E i \in Indices : StartWorker(i)
    \/ \E i \in Indices : RunWorkerIn(i, PoolEnvs)
    \/ \E i \in Indices : Collect(i)
    \/ StartPhase2
    \/ BeginSummarize
    \/ SummarizeIn(PoolSummarizeEnvs)
    \/ ReturnSummaries

PoolSpec == PoolInit /\ [][PoolNext]_vars

-----------------------------------------------------------------------------
(* Specification of the tally *)

TallyInit ==
    /\ FetchInit /\ PipeIdle /\ TallyStart(Threads) /\ BrowserIdle
    /\ QualityIdle /\ ExtractIdle /\ CruftIdle /\ ParseIdle /\ SummIdle
    /\ CorpusIdle /\ MdIdle /\ RetryIdle

TallyNext ==
    \/ \E t \in Threads : TFetch(t)
    \/ \E t \in Threads : TAcquire(t)
    \/ \E t \in Threads : TRead(t)
    \/ \E t \in Threads : TWrite(t)
    \/ \E t \in Threads : TRelease(t)
    \/ \E t \in Threads : TExtract(t)

TallySpec == TallyInit /\ [][TallyNext]_vars

-----------------------------------------------------------------------------
(* Specification of the browser-backed fetchers *)

BrowserInit ==
    /\ FetchInit /\ PipeIdle /\ TallyIdle /\ BrowserStart(Crawlers)
    /\ QualityIdle /\ ExtractIdle /\ CruftIdle /\ ParseIdle /\ SummIdle
    /\ CorpusIdle /\ MdIdle /\ RetryIdle

BrowserNext ==
    \/ \E t \in Crawlers : CCall(t)
    \/ \E t \in Crawlers : CAcquire(t)
    \/ \E t \in Crawlers : CSpawn(t)
    \/ \E t \in Crawlers : CBrowser(t)
    \/ \E t \in Crawlers : CChildExit(t)
    \/ \E t \in Crawlers : CTimeout(t)
    \/ \E t \in Crawlers : CRelease(t)
    \/ \E t \in Crawlers : COrphanExit(t)
    \/ UCall
    \/ UChrome
    \/ UExit
    \/ UTimeout
    \/ UOrphanExit

BrowserSpec == BrowserInit /\ [][BrowserNext]_vars

-----------------------------------------------------------------------------
(* Specification of the quality functions *)

QualityInit ==
    /\ FetchInit /\ PipeIdle /\ TallyIdle /\ BrowserIdle
    /\ QualityStart(TextsOf(MaxSegs))
    /\ ExtractIdle /\ CruftIdle /\ ParseIdle /\ SummIdle /\ CorpusIdle
    /\ MdIdle /\ RetryIdle

QualityNext == CheckQuality \/ EvaluateQuality

QualitySpec == QualityInit /\ [][QualityNext]_vars

-----------------------------------------------------------------------------
(* Specification of extract_content *)

ExtractInit ==
    /\ FetchInit /\ PipeIdle /\ TallyIdle /\ BrowserIdle /\ QualityIdle
    /\ ExtractStart("start")
    /\ CruftIdle /\ ParseIdle /\ SummIdle /\ CorpusIdle /\ MdIdle /\ RetryIdle

ExtractNext == ExtractPrimary \/ ExtractFallback

ExtractSpec == ExtractInit /\ [][ExtractNext]_vars

-----------------------------------------------------------------------------
(* Specification of the cruft stripper in the pipeline *)

CruftInit ==
    /\ FetchInit /\ PipeIdle /\ TallyIdle /\ BrowserIdle /\ QualityIdle
    /\ ExtractIdle
    /\ CruftStart({<<in>> : in \in CruftInputs(MaxCruftLines)})
    /\ ParseIdle /\ SummIdle /\ CorpusIdle /\ MdIdle /\ RetryIdle

CruftNext == StripCruft \/ FetchAndExtractContent

CruftSpec == CruftInit /\ [][CruftNext]_vars

-----------------------------------------------------------------------------
(* Specification of the parser and the validator of LLM answers *)

ParseInit ==
    /\ FetchInit /\ PipeIdle /\ TallyIdle /\ BrowserIdle /\ QualityIdle
    /\ ExtractIdle /\ CruftIdle
    /\ ParseStart({<<raw>> : raw \in RawOutputsOf(MaxRawParts)})
    /\ SummIdle /\ CorpusIdle /\ MdIdle /\ RetryIdle

ParseNext == Parse \/ Validate

ParseSpec == ParseInit /\ [][ParseNext]_vars

-----------------------------------------------------------------------------
(* Specification of summarize_article *)

SummInit ==
    /\ FetchInit /\ PipeIdle /\ TallyIdle /\ BrowserIdle /\ QualityIdle
    /\ ExtractIdle /\ CruftIdle /\ ParseIdle
    /\ SummStart(Envs, "classify")
    /\ CorpusIdle /\ MdIdle /\ RetryIdle

SummNext == Classify \/ CallBackend \/ OllamaRun \/ ParseAndValidate

SummSpec == SummInit /\ [][SummNext]_vars

-----------------------------------------------------------------------------
(* Specification of the corpus snapshot *)

CorpusInit ==
    /\ FetchInit /\ PipeIdle /\ TallyIdle /\ BrowserIdle /\ QualityIdle
    /\ ExtractIdle /\ CruftIdle /\ ParseIdle /\ SummIdle
    /\ CorpusStart(NotCalled)
    /\ MdIdle /\ RetryIdle

CorpusNext == SaveCorpus \/ AlterFiles \/ LoadCorpus

CorpusSpec == CorpusInit /\ [][CorpusNext]_vars

-----------------------------------------------------------------------------
(* Specification of the markdown cleaner *)

MdInit ==
    /\ FetchInit /\ PipeIdle /\ TallyIdle /\ BrowserIdle /\ QualityIdle
    /\ ExtractIdle /\ CruftIdle /\ ParseIdle /\ SummIdle /\ CorpusIdle
    /\ MdStart({<<text>> : text \in MdTexts(MaxMdLines)})
    /\ RetryIdle

MdNext == CleanMarkdown \/ CleanAgain

MdSpec == MdInit /\ [][MdNext]_vars

-----------------------------------------------------------------------------
(* Specification of the retry-or-accept decision of the pipeline *)

RetryInit ==
    /\ FetchInit /\ PipeIdle /\ TallyIdle /\ BrowserIdle /\ QualityIdle
    /\ ExtractIdle /\ CruftIdle /\ ParseIdle /\ SummIdle /\ CorpusIdle
    /\ MdIdle
    /\ RetryStart({<<in>> : in \in RetryInputs(MaxCruftLines)}, "extracted")

RetryNext == RetryExtracted \/ RetryRefetch

RetrySpec == RetryInit /\ [][RetryNext]_vars

-----------------------------------------------------------------------------
(* Properties of fetch_article *)

\* a step that starts a fetch_article call
StartsCall == pc \in Terminal /\ ncalls' = ncalls + 1

EndsWithCache(strategy) == strategy \in {"httpx-cache", "url-to-md-cache"}

\* C1: a fetch of a URL that an earlier call with caching enabled fetched
\* successfully, with no cache clear in between, returns the content of that
\* call at once: no GET, no provider call, a "-cache" strategy, duration 0.
C1_RepeatFetchFromCache ==
    [][(StartsCall /\ cfg'.allow_cache /\ url' \in DOMAIN history)
        => /\ pc' = "returned"
           /\ ~result'.raised
           /\ result'.content = history[url']
           /\ outcome'.content = history[url']
           /\ calls' = <<>>
           /\ gets' = 0
           /\ EndsWithCache(outcome'.strategy)
           /\ outcome'.duration = 0]_vars

\* a repeat fetch served from the markdown cache
C1_Witness ==
    /\ pc = "returned"
    /\ ncalls = 2
    /\ calls = <<>>
    /\ cfg.allow_cache
    /\ outcome.strategy = "url-to-md-cache"
    /\ result.content = history[url]

C3_ProviderOrder ==
    /\ \A i \in 1..Len(calls) :
         /\ calls[i].op = "URLTOMD"
              => i > 1 /\ calls[i - 1].op \in {"GET", "SIBLING_GET"}
         /\ calls[i].op = "JINA"
              => i > 1 /\ calls[i - 1].op = "URLTOMD"
                       /\ calls[i - 1].res = "error"
         /\ calls[i].op \in {"URLTOMD", "JINA"} /\ calls[i].res = "ok"
              => i = Len(calls) /\ pc = "returned"
    /\ pc = "returned" /\ outcome.strategy \in {"url-to-md", "jina"}
         => /\ Last(calls).op = (IF outcome.strategy = "jina" THEN "JINA"
                                                            ELSE "URLTOMD")
            /\ Last(calls).res = "ok"
            /\ result.content = clean_markdown_content(Last(calls).text).cleaned

\* Jina answered after url-to-md raised
C3_Witness ==
    /\ pc = "returned"
    /\ outcome.strategy = "jina"
    /\ Len(calls) >= 3
    /\ calls[Len(calls) - 1].op = "URLTOMD"

\* the one reason each provider fails with in the model
UrlToMdReason == Str(UrlToMdError(url, <<"blocked">>))
JinaReason == Str(JinaFetchError(url, <<"down">>))

\* C4 as stated: once both providers failed in a call, the FetchError raised
\* by the call names both reasons, whatever max_retries is.
C4_Original ==
    pc = "raised" /\ fallback_failed
        => /\ Contains(result.error.msg, UrlToMdReason)
           /\ Contains(result.error.msg, JinaReason)

\* C4: when both providers failed in the fallback that followed the last
\* direct GET of the call, the FetchError raised names both reasons.
C4_BothReasonsWhenFallbackIsLast ==
    pc = "raised" /\ Last(calls).op = "JINA"
        => /\ calls[Len(calls) - 1].op = "URLTOMD"
           /\ calls[Len(calls) - 1].reason = UrlToMdReason
           /\ Last(calls).reason = JinaReason
           /\ Contains(result.error.msg, UrlToMdReason)
           /\ Contains(result.error.msg, JinaReason)

\* both providers failed after the second GET
C4_Witness ==
    /\ pc = "raised"
    /\ gets = 2
    /\ Last(calls).op = "JINA"
    /\ calls[1].res \in FallbackStatuses

\* the URL ends in one of the two suffixes the rewrite strips
HasRewriteSuffix(u) == Last(u) \in {".pdf", "/epub"}

\* the direct GET that heads the log was answered by a trigger of the kind
StatusTrigger == calls # <<>> /\ calls[1].res \in FallbackStatuses
BinaryTrigger == calls # <<>> /\ calls[1].res = "binary"

\* the number of GETs of the rewritten URL in the log
SiblingGets == Cardinality({i \in 1..Len(calls) : calls[i].op = "SIBLING_GET"})

\* C5 as stated: after a 403/429/503 as well as after a binary content
\* type, a URL with a rewrite suffix gets exactly one GET of its HTML
\* sibling before any escalation, and a URL without one escalates at once.
C5_Original ==
    (StatusTrigger \/ BinaryTrigger) /\ Len(calls) >= 2
        => IF HasRewriteSuffix(url)
           THEN calls[2].op = "SIBLING_GET" /\ SiblingGets = 1
           ELSE SiblingGets = 0

\* C5: the rewrite belongs to the content-type trigger only.  After a binary
\* content type a URL ending in ".pdf" or "/epub" gets exactly one GET of the
\* URL without that suffix, html from it is returned and anything else
\* escalates to url-to-md; a URL without suffix escalates at once; the call
\* never comes back to a direct GET.  After 403/429/503 the fetcher goes
\* straight to url-to-md, with no rewrite.
C5_RewriteOnBinaryOnly ==
    /\ BinaryTrigger /\ Len(calls) >= 2
         => IF HasRewriteSuffix(url)
            THEN /\ calls[2].op = "SIBLING_GET"
                 /\ calls[2].target = SubSeq(url, 1, Len(url) - 1)
                 /\ SiblingGets = 1
                 /\ calls[2].res = "html"
                      => /\ Len(calls) = 2
                         /\ pc = "returned"
                         /\ result.content = calls[2].text
                         /\ outcome.strategy = "httpx"
                 /\ calls[2].res # "html" /\ Len(calls) >= 3
                      => calls[3].op = "URLTOMD"
            ELSE /\ SiblingGets = 0
                 /\ calls[2].op = "URLTOMD"
    /\ BinaryTrigger => pc # "get"
    /\ StatusTrigger
         => /\ SiblingGets = 0
            /\ Len(calls) >= 2 => calls[2].op = "URLTOMD"

\* binary content, the sibling did not yield html, url-to-md was called
C5_Witness ==
    /\ BinaryTrigger
    /\ Len(calls) = 3
    /\ calls[2].op = "SIBLING_GET"
    /\ calls[2].res = "nohtml"
    /\ calls[3].op = "URLTOMD"
    /\ url = <<"h", "/epub">>

\* CrawleeFetchConfig.timeout, the floor of a headless fetch
CRAWLEE_TIMEOUT == 60

\* C6 as stated: once the direct GET of a URL returned 403 (every URL taken
\* to be on the headless allow-list), what follows is exactly one headless
\* render with a timeout of at least 60 s and never another direct GET.
C6_HeadlessOnceAfter403 ==
    calls # <<>> /\ calls[1].op = "GET" /\ calls[1].res = "403"
        => /\ pc # "get"
           /\ pc \in Terminal => Len(calls) >= 2
           /\ \A i \in 2..Len(calls) :
                /\ calls[i].op = "CRAWLEE" <=> i = 2
                /\ calls[i].op = "CRAWLEE"
                     => calls[i].timeout >= CRAWLEE_TIMEOUT

\* C7 as stated: markdown returned by fetch_article holds no line that
\* strip_cruft removes, and with caching (and no cache cleared since) it
\* sits in the markdown cache only.
C7_Original ==
    pc = "returned" /\ outcome.format = "markdown"
        => /\ strip_cruft(result.content) = result.content
           /\ cfg.allow_cache /\ url \in DOMAIN history
                => /\ url \in DOMAIN CACHE_MARKDOWN
                   /\ CACHE_MARKDOWN[url] = result.content
                   /\ url \notin DOMAIN CACHE_HTML

\* C7: markdown returned by fetch_article went through
\* clean_markdown_content: no line that opens a contact or "## More" section
\* is left, no line ends in white space and no blank line leads or trails;
\* with caching, and until a cache is cleared, it sits in the markdown cache
\* and not in the HTML cache.
C7_MarkdownCleanedAndCached ==
    pc = "returned" /\ outcome.format = "markdown"
        => /\ \A i \in 1..Len(result.content) :
                /\ ~MatchesSectionPattern(result.content[i])
                /\ Rstrip(result.content[i]) = result.content[i]
           /\ result.content # <<>>
                => result.content[1] # "" /\ Last(result.content) # ""
           /\ outcome.content = result.content
           /\ cfg.allow_cache /\ url \in DOMAIN history
                => /\ url \in DOMAIN CACHE_MARKDOWN
                   /\ CACHE_MARKDOWN[url] = result.content
                   /\ url \notin DOMAIN CACHE_HTML

\* a provider answered with a "## More" section, which was removed
C7_Witness ==
    /\ pc = "returned"
    /\ outcome.format = "markdown"
    /\ cfg.allow_cache
    /\ outcome.removed_sections # <<>>
    /\ result.content = <<"text">>
    /\ CACHE_MARKDOWN[url] = <<"text">>

\* C8 as stated: the fetcher is never about to retry the direct GET without
\* a backoff wait as the last thing it did.
C8_BackoffBeforeRetry ==
    pc = "get" /\ gets > 0
        => calls # <<>> /\ Last(calls).op = "SLEEP"

\* C9: every call ends; it issues at most max_retries + 1 direct GETs; and
\* when the first k GETs raised transport errors and GET k+1 brought html,
\* the call returns that html with strategy "httpx", k + 1 GETs in all.
C9_BoundedRetries ==
    /\ [](gets <= cfg.max_retries + 1)
    /\ [](Len(calls) = 1 /\ calls[1].res = "html"
            => /\ pc = "returned"
               /\ ~result.raised
               /\ result.content = calls[1].text
               /\ outcome.strategy = "httpx"
               /\ outcome.content = calls[1].text
               /\ gets <= cfg.max_retries + 1
               /\ transport_fails < gets)
    /\ (pc \notin Terminal) ~> (pc \in Terminal)

\* one transport error, then html
C9_Witness ==
    /\ pc = "returned"
    /\ transport_fails = 1
    /\ gets = 2
    /\ calls[1].res = "html"
    /\ outcome.strategy = "httpx"
    /\ result.content = <<"<html>ok</html>">>

-----------------------------------------------------------------------------
(* Properties of process_articles *)

\* the number of entries of a result list that belong to url u
Entries(list, u) == Cardinality({k \in 1..Len(list) : list[k].url = u})

\* the failure entries that record a failed fetch_article
FetchFailures ==
    {k \in 1..Len(failures) : failures[k].reason = <<"HTTP 403">>}

\* C10: process_articles returns, and when it does every processed link has
\* exactly one entry, in the summaries or in the failures; if the only
\* failures are f failed fetches, there are n - f summaries and f failures.
C10_OneEntryPerLink ==
    /\ <>(phase = "done")
    /\ [](phase = "done"
            => /\ \A i \in Indices :
                    Entries(summaries, links_to_process[i])
                        + Entries(failures, links_to_process[i]) = 1
               /\ Len(summaries) + Len(failures) = Len(links_to_process)
               /\ Cardinality(FetchFailures) = Len(failures)
                    => Len(summaries)
                         = Len(links_to_process) - Cardinality(FetchFailures))

\* two links, one fetch failure, one summary
C10_Witness ==
    /\ phase = "done"
    /\ Len(links_to_process) = 2
    /\ Len(failures) = 1
    /\ Cardinality(FetchFailures) = 1
    /\ Len(summaries) = 1

\* the input index of the link with url u
LinkIndex(u) == CHOOSE i \in 1..MaxLinks + 1 : LinkUrl(i) = u

\* a list of records with a url is in the order of the input
InInputOrder(list) ==
    \A k, l \in 1..Len(list) :
        k < l => LinkIndex(list[k].url) < LinkIndex(list[l].url)

\* C11: whatever the completion order of the workers, the articles handed
\* to the summarization phase and the summaries returned are ordered by the
\* input index of their links.
C11_SummariesInInputOrder ==
    phase \in {"summarize", "done"}
        => InInputOrder(article_data_list) /\ InInputOrder(summaries)

\* C12: no summarize call is in progress before every fetch/extract task of
\* the batch has finished, at most one summarize call is in progress, and
\* at most MAX_WORKERS fetch/extract tasks run at the same time.
C12_PhasesAndPoolBound ==
    /\ in_summarize > 0
         => \A i \in Indices : future[i] \in {"finished", "collected"}
    /\ in_summarize <= 1
    /\ Cardinality(Running) <= MAX_WORKERS

\* MAX_WORKERS tasks run while the next one waits in the queue
C12_Witness ==
    /\ Cardinality(Running) = MAX_WORKERS
    /\ \E i \in Indices : future[i] = "queued"

\* cli.py lines 200-204: the reason recorded in the failure list for a
\* FetchError e raised by fetch_article(u)
FailureReason(u, e) ==
    StripPrefix(Str(e), <<"Failed to fetch ">> \o u \o <<": ">>)

\* C13: the reason recorded for a FetchError raised by fetch_article holds
\* no "Failed to fetch <url>: " prefix text, also when the FetchError wraps
\* an inner FetchError.
C13_ReasonDePrefixed ==
    pc = "raised" /\ result.error.type = "FetchError"
        => ~Contains(FailureReason(url, result.error),
                     <<"Failed to fetch ">> \o url \o <<": ">>)

RECURSIVE SumOver(_, _)
\* the sum of f over the set S of its arguments
SumOver(f, S) ==
    IF S = {} THEN 0
    ELSE LET x == CHOOSE y \in S : TRUE IN f[x] + SumOver(f, S \ {x})

\* C14: a thread reads and stores a tally only while it holds counter_lock,
\* and once every thread is through, the tallies sum to the number of fetch
\* outcomes the threads got (initial fetches plus markdown refetches).
C14_NoLostUpdate ==
    /\ \A t \in Threads :
         tpc[t] \in {"read", "write", "release"} => counter_lock = t
    /\ (\A t \in Threads : tpc[t] = "done")
         => SumOver(strategy_counter, Strategies) = recorded

\* both threads recorded the same strategy, one of them twice over a refetch
C14_Witness ==
    /\ \A t \in Threads : tpc[t] = "done"
    /\ recorded = 3
    /\ strategy_counter["url-to-md"] = 2
    /\ strategy_counter["httpx"] = 1

\* C15: at most one crawler subprocess runs at any time, a thread runs one
\* only while it holds the guard, and a thread that has come back from
\* fetch_with_crawlee_sync, with html or with CrawleeFetchError, does not
\* hold the guard.
C15_OneCrawlAtATime ==
    /\ Cardinality({t \in Crawlers : child[t] = "running"}) <= 1
    /\ \A t \in Crawlers :
         /\ child[t] = "running" => sync_guard = t
         /\ cpc[t] \in {"idle", "acquire", "returned", "raised"}
              => sync_guard # t
         /\ cpc[t] = "raised" => cres[t].type = "CrawleeFetchError"

\* one thread has come back with an error, another runs its subprocess, a
\* call having succeeded before
C15_Witness ==
    \E t1, t2 \in Crawlers :
        /\ cpc[t1] = "raised"
        /\ cpc[t2] = "run"
        /\ child[t2] = "running"
        /\ ccalls = 3

\* the call ended on its hard cutoff
TimedOut(r) == r.raised /\ Contains(r.msg, <<"timeout after ">>)
CutOff(r) == r.raised /\ Contains(r.msg, <<"subprocess timeout after ">>)

\* C16: when a browser-backed fetch has raised on its hard cutoff, the
\* subprocess and every process it spawned are gone, and the error is the
\* provider's error with a timeout reason.
C16_NoSurvivorAfterTimeout ==
    /\ \A t \in Crawlers :
         cpc[t] = "raised" /\ child[t] = "killed"
            => /\ browser[t] # "alive"
               /\ cres[t].type = "CrawleeFetchError"
               /\ CutOff(cres[t])
    /\ upc = "raised" /\ uleader = "killed"
         => /\ uchrome # "alive"
            /\ ures.type = "UrlToMdError"
            /\ TimedOut(ures)

\* the highest-priority rule a text matches, "" when it matches none
TopRule(content) ==
    IF CountLower(CLOUDFLARE_INDICATORS, content) >= 2 THEN "cloudflare"
    ELSE IF CountLower(PAYWALL_INDICATORS, content) >= 2 THEN "paywall"
    ELSE IF CountCase(UI_INDICATORS, content) >= 2 THEN "ui"
    ELSE IF ReferencesOnly(NonEmptyLines(SplitNewline(content)))
    THEN "references"
    ELSE ""

\* C17: a text that matches one of the four rules is reported with the
\* reason of the first rule it matches in the order bot-challenge, paywall,
\* UI chrome, references-only.
C17_FirstMatchPriority ==
    q_result # NotCalled /\ TopRule(q_content) # ""
        => /\ q_result[1].is_failure
           /\ q_result[1].reason = RuleReason(TopRule(q_content))

\* two bot-challenge and two paywall indicators: reported as bot-challenge
C17_Witness ==
    /\ q_result # NotCalled
    /\ CountLower(CLOUDFLARE_INDICATORS, q_content) >= 2
    /\ CountLower(PAYWALL_INDICATORS, q_content) >= 2
    /\ q_result[1].reason = RuleReason("cloudflare")

\* C18 as stated: every text that matches none of the four rules, empty and
\* white-space-only text included, gets the verdict ok.
C18_Original ==
    q_result # NotCalled /\ TopRule(q_content) = ""
        => ~q_result[1].is_failure

\* C18: a text that holds a character other than white space and matches
\* none of the four rules gets the verdict ok; an empty or white-space-only
\* text gets a failure verdict with the reason "empty content".
C18_OkUnlessRuleOrBlank ==
    q_result # NotCalled
        => /\ IsBlank(q_content)
                => q_result[1] = QualityResult(TRUE, "empty content")
           /\ ~IsBlank(q_content) /\ TopRule(q_content) = ""
                => q_result[1] = QualityResult(FALSE, "")
           /\ q_result[1].is_failure
                => IsBlank(q_content) \/ TopRule(q_content) # ""

\* a white-space-only text was classified
C18_Witness ==
    /\ q_result # NotCalled
    /\ q_content = <<" ", "">>
    /\ q_result[1].is_failure

\* C19: for every text, evaluate_quality raises one of its flags (paywall,
\* UI elements, references-only) exactly when check_content_quality reports
\* a failure.
C19_BenchmarkSharesVerdict ==
    q_result # NotCalled /\ q_metrics # NotCalled
        => ((\/ q_metrics[1].is_paywall
             \/ q_metrics[1].is_ui_elements
             \/ q_metrics[1].is_references_only)
                <=> q_result[1].is_failure)

\* the primary extractor answered a text of at least 100 words that the
\* Quality Classifier passes
PrimaryPasses ==
    /\ x_primary.kind = "text"
    /\ WordCount(x_primary.content) >= 100
    /\ ~check_content_quality(x_primary.content).is_failure

\* C20 as stated: what extract_content returns is the primary extractor's
\* output exactly when that output has at least 100 words and passes the
\* Quality Classifier; otherwise the fallback ran exactly once.
C20_Original ==
    x_pc = "returned"
        => /\ x_primary_runs = 1
           /\ PrimaryPasses
                => /\ x_source = "trafilatura"
                   /\ x_out = x_primary.content
                   /\ x_fallback_runs = 0
           /\ ~PrimaryPasses
                => /\ x_source = "readability"
                   /\ x_fallback_runs = 1

\* C20: extract_content returns the primary extractor's output, with
\* trailing white space and blank lines removed, if and only if that output
\* has at least 100 words and passes the Quality Classifier; in every other
\* case the fallback runs exactly once and its cleaned markdown is returned,
\* whatever its quality, and the primary extractor is not tried again.
C20_PrimaryIffAccepted ==
    x_pc = "returned"
        => /\ x_primary_runs = 1
           /\ PrimaryPasses
                => /\ x_source = "trafilatura"
                   /\ x_out = clean_extracted_text(x_primary.content)
                   /\ x_fallback_runs = 0
           /\ ~PrimaryPasses
                => /\ x_source = "readability"
                   /\ x_fallback_runs = 1
                   /\ x_out = clean_extracted_text(x_markdown)

\* a primary text of 100 words that the classifier fails went to the
\* fallback, whose low-quality markdown was returned
C20_Witness ==
    /\ x_pc = "returned"
    /\ x_primary.kind = "text"
    /\ WordCount(x_primary.content) >= 100
    /\ check_content_quality(x_primary.content).is_failure
    /\ x_source = "readability"
    /\ is_low_quality(x_out)

\* no line of the text, trimmed, matches a cruft pattern
CruftFree(text) ==
    \A i \in 1..Len(text) : ~MatchesCruftPattern(Strip(text[i]))

\* the indices of the lines of a text that are not cruft
KeptIndices(lines) ==
    {i \in 1..Len(lines) : ~MatchesCruftPattern(Strip(lines[i]))}

\* out is made of the lines of the text that are not cruft, unchanged and in
\* their order
KeepsOtherLines(text, out) ==
    LET lines == SplitLines(text)
        kept == KeptIndices(lines)
        Nth(j) == CHOOSE i \in kept : Cardinality({k \in kept : k <= i}) = j
    IN /\ Len(out) = Cardinality(kept)
       /\ \A j \in 1..Len(out) : out[j] = lines[Nth(j)]

\* C21: the output of strip_cruft has no line whose trimmed text matches a
\* cruft pattern and keeps every other line unchanged and in order, and the
\* content of every article handed to summarization is the output of
\* strip_cruft for the fetched or the refetched text.
C21_CruftStripped ==
    /\ k_stripped # NotCalled
        => /\ CruftFree(k_stripped[1])
           /\ KeepsOtherLines(k_in[1].content, k_stripped[1])
    /\ k_result # NotCalled /\ k_result[1].article_data # None
        => /\ CruftFree(k_result[1].article_data[1].content)
           /\ \E text \in {k_in[1].content, k_in[1].fallback.content} :
                KeepsOtherLines(text, k_result[1].article_data[1].content)

\* an article whose content is refetched markdown that held a cruft line
C21_Witness ==
    /\ k_result # NotCalled
    /\ k_result[1].article_data # None
    /\ k_in[1].format = "html"
    /\ ~CruftFree(k_in[1].fallback.content)
    /\ k_result[1].article_data[1].content
            = strip_cruft(k_in[1].fallback.content)
    /\ k_stripped # NotCalled
    /\ k_stripped[1] # k_in[1].content

\* the number of places of a text where a "." stands between two digits
Decimals(text) ==
    Cardinality({i \in 2..(Len(text) - 1) :
                    text[i] = "." /\ IsDigit(text[i - 1]) /\ IsDigit(text[i + 1])})

\* the lines of a raw output that begin with a bullet marker or a number
ListLines(raw) ==
    LET split == TextLines(raw, 1, <<>>, <<>>)
    IN SelectSeq([i \in 1..Len(split) |-> StripText(split[i])],
                 LAMBDA line : HasMarker(line) \/ HasNumber(line))

\* the text after the marker or the number of a list line
AfterMarker(line) ==
    StripText(SubSeq(line, IF HasMarker(line) THEN 3 ELSE 4, Len(line)))

\* the sentence ends (".", "!", "?") of a text
SentenceEnds(text) == {i \in 1..Len(text) : text[i] \in {".", "!", "?"}}

\* C30: a JSON object with a readable "bullets" list gives exactly
\* "**label**: text" per entry, in order; every other output goes to the
\* text parser, which gives the list lines (without their marker, tags
\* normalized) if there are any and otherwise at most 4 sentences, and no
\* sentence ends at a "." between two digits: while nothing is cut off, every
\* decimal of the output is inside one bullet.
C30_JsonFirstThenText ==
    p_bullets # NotCalled =>
        LET raw == p_raw[1]
            bullets == p_bullets[1]
            data == JsonLoads(raw)
        IN IF data.decoded /\ data.has_bullets /\ data.readable
           THEN /\ Len(bullets) = Len(data.bullets)
                /\ \A i \in 1..Len(bullets) :
                     bullets[i] = <<"**">> \o data.bullets[i].label
                                    \o <<"**", ":", " ">>
                                    \o data.bullets[i].text
           ELSE /\ bullets = parse_bullets_text(raw)
                /\ IF ListLines(raw) # <<>>
                   THEN /\ Len(bullets) = Len(ListLines(raw))
                        /\ \A i \in 1..Len(bullets) :
                             bullets[i] = normalize_bullet_tags(
                                              AfterMarker(ListLines(raw)[i]))
                   ELSE /\ Len(bullets) <= 4
                        /\ Cardinality(SentenceEnds(raw)) <= 3
                             => Decimals(JoinLines(bullets)) = Decimals(raw)

\* prose with the decimal 0.74 was split into 4 sentences
C30_Witness ==
    /\ p_bullets # NotCalled
    /\ Decimals(p_raw[1]) > 0
    /\ ListLines(p_raw[1]) = <<>>
    /\ Len(p_bullets[1]) = 4
    /\ \E i \in 1..4 : Decimals(p_bullets[1][i]) > 0

\* the bracketed tags that are synonyms of a tag of the vocabulary
TagSynonyms ==
    {"[SHIP NOW]", "[rocket SHIP NOW]", "[ship now]", "[WATCH]", "[URGENT]"}

\* C29: after _parse_bullets no bullet holds a synonym of a vocabulary tag,
\* whether the bullets came from the JSON document or from the text, and
\* whatever validation says afterwards.
C29_TagsCanonicalOnEveryPath ==
    p_bullets # NotCalled
        => \A i \in 1..Len(p_bullets[1]) :
               \A j \in 1..Len(p_bullets[1][i]) :
                   p_bullets[1][i][j] \notin TagSynonyms


\* the four labels as the words alone
BareLabels ==
    << <<"KEY FINDING">>, <<"TACTICAL WIN">>, <<"MARKET SIGNAL">>,
       <<"CONCERN">> >>

\* every label of the list is somewhere in the bullets joined by "\n"
CoversLabels(bullets, labels) ==
    \A k \in 1..Len(labels) : Contains(JoinLines(bullets), labels[k])

\* the trimmed raw output is 100 to 2000 characters long
ProseSized(raw) ==
    TextLen(StripText(raw)) \in 100..2000

\* C24 as stated: an output is accepted iff it parsed to 3 or 4 bullets that
\* hold the words KEY FINDING, TACTICAL WIN, MARKET SIGNAL and CONCERN, or
\* its trimmed raw text is 100 to 2000 characters long.
C24_Original ==
    p_valid # NotCalled
        => (p_valid[1][1]
               <=> \/ /\ Len(p_bullets[1]) \in 3..4
                      /\ CoversLabels(p_bullets[1], BareLabels)
                   \/ ProseSized(p_raw[1]))

\* C24: an output is accepted iff it parsed to 3 or 4 bullets that hold the
\* labels with their bold markers, "**KEY FINDING**", "**TACTICAL WIN",
\* "**MARKET SIGNAL" and "**CONCERN**", or its trimmed raw text is 100 to
\* 2000 characters long; the order of the labels does not matter.
C24_AcceptsBoldLabelsOrProse ==
    p_valid # NotCalled
        => (p_valid[1][1]
               <=> \/ /\ Len(p_bullets[1]) \in 3..4
                      /\ CoversLabels(p_bullets[1],
                             << <<"**", "KEY FINDING", "**">>,
                                <<"**", "TACTICAL WIN">>,
                                <<"**", "MARKET SIGNAL">>,
                                <<"**", "CONCERN", "**">> >>)
                   \/ ProseSized(p_raw[1]))

\* four bullets that start with CONCERN and end with KEY FINDING, in an
\* output shorter than 100 characters, were accepted
C24_Witness ==
    /\ p_valid # NotCalled
    /\ p_valid[1][1]
    /\ ~ProseSized(p_raw[1])
    /\ Len(p_bullets[1]) = 4
    /\ Contains(p_bullets[1][1], <<"**", "CONCERN", "**">>)
    /\ Contains(p_bullets[1][4], <<"**", "KEY FINDING", "**">>)


\* the cycles begun so far: the calls of the runner or of the first backend
\* of an attempt (in auto mode Ollama only follows LM Studio)
Cycles ==
    Cardinality({i \in 1..Len(s_calls) :
        \/ s_calls[i].what \in {"runner", "lmstudio"}
        \/ s_calls[i].what = "ollama" /\ s_env.backend = "ollama"})

\* the validation message of a raw output, <<>> if it is valid
ValidationMessage(raw_output) ==
    validate_bullet_structure(parse_bullets(raw_output), raw_output)[2]

\* the raw output has bullets and they fail validation
FailsValidation(raw_output) ==
    /\ parse_bullets(raw_output) # <<>>
    /\ ~validate_bullet_structure(parse_bullets(raw_output), raw_output)[1]

\* C22: summarize_article runs at most 2 cycles of backend call, parse and
\* validation; a validation failure of the first cycle is followed by one
\* more cycle, and a validation failure of the second cycle raises
\* SummarizerError with the validation message of that second cycle in it.
C22_TwoCyclesLastMessage ==
    /\ [](Cycles <= 2 /\ Len(s_raws) <= 2 /\ s_attempt <= 2)
    /\ [][s_pc = "parse" /\ FailsValidation(Last(s_raws))
            => IF s_attempt = 1
               THEN /\ s_pc' = "backend"
                    /\ s_attempt' = 2
                    /\ s_result' = NotCalled
               ELSE /\ s_pc' = "raised"
                    /\ s_result'[1].raised = "SummarizerError"
                    /\ Contains(s_result'[1].message,
                                ValidationMessage(s_raws[2]))]_vars

\* two cycles failed validation with different messages, and the error
\* raised carries the one of the second cycle
C22_Witness ==
    /\ s_pc = "raised"
    /\ Len(s_raws) = 2
    /\ FailsValidation(s_raws[1])
    /\ FailsValidation(s_raws[2])
    /\ ValidationMessage(s_raws[1]) # ValidationMessage(s_raws[2])
    /\ Contains(s_result[1].message, ValidationMessage(s_raws[2]))
    /\ ~Contains(s_result[1].message, ValidationMessage(s_raws[1]))


\* the raw output has no bullets or they fail validation
InvalidStructure(raw_output) ==
    \/ parse_bullets(raw_output) = <<>>
    \/ FailsValidation(raw_output)

\* C23: when the output of attempt 1 has an invalid structure (no bullet
\* parsed from it included), summarize_article does not end with it but makes
\* attempt 2, whose valid output then alone makes the result.
C23_RetryAfterInvalidOutput ==
    [][(s_pc = "parse" /\ s_attempt = 1 /\ InvalidStructure(Last(s_raws)))
          => /\ s_pc' = "backend"
             /\ s_attempt' = 2
             /\ s_result' = NotCalled]_vars


\* C25: every result summarize_article returns has 3 or 4 bullets.
C25_ThreeOrFourBullets ==
    (s_result # NotCalled /\ s_result[1].raised = "none")
        => Len(s_result[1].summary) \in 3..4


\* no runner is given and no backend is pinned
AutoMode == ~s_env.runner /\ s_env.backend = "None"

\* the backend is pinned (and no runner given)
Pinned(backend) == ~s_env.runner /\ s_env.backend = backend

\* the calls of the history made to one of the backends named
CallsTo(names) == {i \in 1..Len(s_calls) : s_calls[i].what \in names}

\* this step of the backend selection called LM Studio for the summary
LmStudioStep ==
    /\ s_pc = "backend"
    /\ Len(s_calls') > Len(s_calls)
    /\ s_calls'[Len(s_calls) + 1].what = "lmstudio"

\* a pinned backend never has the other one called
PinnedAlone ==
    /\ Pinned("lmstudio") => CallsTo({"ollama", "run", "restart"}) = {}
    /\ Pinned("ollama") => CallsTo({"lmstudio"}) = {}

\* C26 as stated: a failure of a pinned backend raises SummarizerError and the
\* other backend is never called; in auto mode every failure of the LM Studio
\* call is followed by a call of Ollama with the same prompt.
C26_Original ==
    /\ []PinnedAlone
    /\ [][(s_pc \in {"backend", "ollama"} /\ s_pc' = "raised"
             /\ (Pinned("lmstudio") \/ Pinned("ollama")))
            => s_result'[1].raised = "SummarizerError"]_vars
    /\ [][(AutoMode /\ LmStudioStep /\ s_pc' # "parse")
            => /\ s_pc' = "ollama"
               /\ Last(s_calls') =
                      BackendCall("ollama", s_calls'[Len(s_calls) + 1].prompt)]_vars

\* C26: a pinned backend never has the other one called, and its
\* SummarizerError ends summarize_article; in auto mode Ollama is called, with
\* the same prompt, exactly when LM Studio raised SummarizerError and
\* OLLAMA_ENABLED is set, and then a failure of Ollama raises SummarizerError
\* (a missing ollama binary raises FileNotFoundError instead);
\* without OLLAMA_ENABLED the error of LM Studio is raised as it is, and an
\* exception of LM Studio other than SummarizerError is never caught.
C26_FallbackOnlyWhenEnabled ==
    /\ []PinnedAlone
    /\ [][LmStudioStep /\ s_pc' # "parse"
            => IF AutoMode /\ s_env.OLLAMA_ENABLED
               THEN \/ /\ s_pc' = "ollama"
                       /\ Last(s_calls') =
                              BackendCall("ollama",
                                          s_calls'[Len(s_calls) + 1].prompt)
                    \/ /\ s_pc' = "raised"
                       /\ s_result'[1].raised # "SummarizerError"
               ELSE /\ s_pc' = "raised"
                    /\ Last(s_calls').what = "lmstudio"]_vars
    /\ [][s_pc = "ollama" /\ s_pc' = "raised"
            => \/ s_result'[1].raised = "SummarizerError"
               \/ s_result'[1].message
                      = <<"No such file or directory: 'ollama'">>]_vars

\* in auto mode with OLLAMA_ENABLED, LM Studio failed, Ollama was called with
\* the same prompt and failed too
C26_Witness ==
    /\ AutoMode /\ s_env.OLLAMA_ENABLED
    /\ s_pc = "raised"
    /\ Len(s_calls) >= 3
    /\ s_calls[Len(s_calls) - 2].what = "lmstudio"
    /\ s_calls[Len(s_calls) - 1].what = "ollama"
    /\ s_calls[Len(s_calls) - 1].prompt = s_calls[Len(s_calls) - 2].prompt
    /\ Last(s_calls).what = "run"
    /\ s_result[1].message = <<"Both LM Studio and Ollama failed for ", "url">>


\* the subprocess runs and the restarts of the call of _run_with_ollama that
\* is under way or was made last
RunsOfCall(what) ==
    LET entered == CallsTo({"ollama"})
        from == CHOOSE i \in entered : \A j \in entered : j <= i
    IN {i \in CallsTo({what}) : i > from}

\* C27: one call of _run_with_ollama runs the subprocess at most twice and
\* restarts the daemon at most once; a time-out of the first run is followed
\* by the restart and one more run, and every other failure (a time-out of the
\* second run, a non-zero exit of either) raises SummarizerError at once; a
\* missing binary ends the call at once too, with its FileNotFoundError.
C27_OneRestartOneRetry ==
    /\ [](CallsTo({"ollama"}) # {}
            => /\ Cardinality(RunsOfCall("run")) <= 2
               /\ Cardinality(RunsOfCall("restart")) <= 1)
    /\ [][s_pc = "ollama"
            => /\ Len(s_calls') > Len(s_calls)
               /\ s_calls'[Len(s_calls) + 1].what = "run"
               /\ \/ s_pc' = "parse" /\ Last(s_calls').what = "run"
                  \/ /\ o_attempt = 0
                     /\ s_pc' = "ollama"
                     /\ o_attempt' = 1
                     /\ Last(s_calls').what = "restart"
                     /\ Len(s_calls') = Len(s_calls) + 2
                  \/ /\ s_pc' = "raised"
                     /\ \/ s_result'[1].raised = "SummarizerError"
                        \/ s_result'[1].message
                               = <<"No such file or directory: 'ollama'">>
                     /\ Last(s_calls').what = "run"
                     /\ (o_attempt = 0 /\ Pinned("ollama"))
                            => s_result'[1].message
                                   \in {<<"unknown ollama error">>,
                                        <<"No such file or directory: 'ollama'">>}]_vars
    /\ [](s_pc = "ollama" => o_attempt \in {0, 1})
    /\ [](s_pc = "ollama" /\ o_attempt = 1
            => Cardinality(RunsOfCall("run")) = 1
               /\ Cardinality(RunsOfCall("restart")) = 1)

\* the first run timed out, the daemon was restarted, and the second run timed
\* out too: SummarizerError after two runs and one restart
C27_Witness ==
    /\ s_pc = "raised"
    /\ CallsTo({"ollama"}) # {}
    /\ Cardinality(RunsOfCall("run")) = 2
    /\ Cardinality(RunsOfCall("restart")) = 1
    /\ Last(s_calls).what = "run"
    /\ s_env.backend = "ollama"
    /\ s_result[1].message[1] = "Ollama unresponsive (timed out after "


\* the classification call failed for this answer, or the answer is, trimmed
\* and in upper case, none of the four article types
NoTypeIn(env, answer) ==
    \/ ~env.LMSTUDIO_BASE_URL
    \/ answer.raises # "none"
    \/ \A type \in ARTICLE_TYPES :
           [i \in 1..Len(StripText(answer.output)) |->
               Upper(StripText(answer.output)[i])] # <<type>>

\* C28: classification is never fatal: whatever the classification call does
\* (LM Studio not configured, an error, a time-out, an answer that is none of
\* the four types), classify_article_type gives NEWS and summarize_article
\* goes on to the first attempt, with a runner or a pinned backend too.
C28_ClassifyNeverFatal ==
    /\ [](\A answer \in LmStudioAnswers(TypeOutputs) :
            /\ classify_article_type(s_env, answer) \in ARTICLE_TYPES
            /\ NoTypeIn(s_env, answer)
                   => classify_article_type(s_env, answer) = "NEWS")
    /\ [][s_pc = "classify"
            => /\ s_pc' = "backend"
               /\ s_attempt' = 1
               /\ s_result' = NotCalled
               /\ \E answer \in LmStudioAnswers(TypeOutputs) :
                      s_article_type' = classify_article_type(s_env, answer)
               /\ ~s_env.LMSTUDIO_BASE_URL
                      => s_article_type' = "NEWS" /\ s_calls' = s_calls]_vars

\* LM Studio is not configured and a runner is given: the article was
\* classified NEWS and the runner's summary returned
C28_Witness ==
    /\ s_env.runner
    /\ ~s_env.LMSTUDIO_BASE_URL
    /\ s_article_type = "NEWS"
    /\ s_pc = "returned"
    /\ s_calls[1] = BackendCall("runner", build_prompt("NEWS"))


\* C31: whatever fails in summarize_article (the runner, the LM Studio call,
\* the Ollama call), the exception that reaches the caller is a
\* SummarizerError.
C31_OnlySummarizerError ==
    (s_result # NotCalled /\ s_result[1].raised # "none")
        => s_result[1].raised = "SummarizerError"


\* C40: an output that is exactly the four labelled bullets the prompt of
\* the article's type asks for is accepted on the first attempt, as four
\* bullets, whatever its length.
C40_PromptedBulletsAccepted ==
    [][(s_pc = "parse" /\ s_attempt = 1
            /\ StripText(Last(s_raws)) = StripText(PromptOutput(s_article_type)))
          => /\ s_pc' = "returned"
             /\ Len(s_result'[1].summary) = 4]_vars


\* the type is ValueError or a subclass of it (json.JSONDecodeError is one)
IsValueError(type) == type \in {"ValueError", "JSONDecodeError"}

\* load_corpus ran on the files of a save_corpus call
LoadedAfterSave == d_loaded # NotCalled /\ d_saved # NotCalled

Picked(lines, indices) ==
    LET Nth(j) == CHOOSE i \in indices :
                      Cardinality({k \in indices : k <= i}) = j
    IN [j \in 1..Cardinality(indices) |-> lines[Nth(j)]]

\* line i is in a removed section: not blank, and a line that matches a
\* section pattern is at i or before it with no blank line in between
InRemovedSection(lines, i) ==
    /\ Strip(lines[i]) # ""
    /\ \E j \in 1..i :
         /\ MatchesSectionPattern(lines[j])
         /\ \A k \in j..i : Strip(lines[k]) # ""

\* C37: clean_markdown_content removes every line that matches a section
\* pattern and the lines after it up to the next blank line, lists the removed
\* lines in their order, keeps every other non-blank line, right-trimmed, in
\* its order, leaves no two blank lines in a row and none at either end; and
\* cleaning its own output changes nothing and removes nothing.
C37_SectionsRemovedIdempotent ==
    /\ m_out # NotCalled
         => LET lines == SplitLines(m_in[1])
                out == m_out[1].cleaned
                removed == {i \in 1..Len(lines) : InRemovedSection(lines, i)}
                kept == {i \in 1..Len(lines) :
                            Strip(lines[i]) # "" /\ i \notin removed}
                removed_lines == Picked(lines, removed)
                kept_lines == Picked(lines, kept)
            IN /\ m_out[1].removed
                    = [j \in 1..Len(removed_lines) |-> Strip(removed_lines[j])]
               /\ SelectSeq(out, LAMBDA line : line # "")
                    = [j \in 1..Len(kept_lines) |-> Rstrip(kept_lines[j])]
               /\ \A i \in 1..Len(out) : Strip(out[i]) = "" => out[i] = ""
               /\ \A i \in 1..(Len(out) - 1) : out[i] # "" \/ out[i + 1] # ""
               /\ out # <<>> => out[1] # "" /\ Last(out) # ""
    /\ m_again # NotCalled
         => /\ m_again[1].cleaned = m_out[1].cleaned
            /\ m_again[1].removed = <<>>

\* a text whose "## more" section, with the line after it, was removed, the
\* blank line before it trimmed, and the result cleaned again
C37_Witness ==
    /\ m_again # NotCalled
    /\ m_in[1] = <<"text ", "", "## more", "text">>
    /\ m_out[1].cleaned = <<"text">>
    /\ m_out[1].removed = <<"## more", "text">>
    /\ m_again[1].cleaned = <<"text">>


\* the provider calls of kind op made since the last direct GET
ProviderCalls(op) == Cardinality({i \in 1..Len(calls) : calls[i].op = op})

\* the markdown cascade is running and its last provider fails in this step
CascadeFails ==
    /\ pc = "jina"
    /\ pc' # "jina"
    /\ ~(pc' = "returned" /\ outcome'.format = "markdown")

\* C35: in one fetch_article call the markdown cascade runs at most once per
\* direct GET and there are at most max_retries + 1 direct GETs; a cascade
\* started by a binary content type that fails raises FetchError with no
\* further direct GET, one started by status 403, 429 or 503 that fails hands
\* over to the next direct GET while attempts remain.
C35_CascadeOncePerTrigger ==
    /\ [](/\ ProviderCalls("URLTOMD") <= 1
          /\ ProviderCalls("JINA") <= 1
          /\ gets <= cfg.max_retries + 1
          /\ pc \in {"urltomd", "jina"}
               => /\ trigger \in {"binary", "status"}
                  /\ gets = attempt + 1
                  /\ trigger = "status" =>
                        calls[1].res \in {"403", "429", "503"}
                  /\ trigger = "binary" => calls[1].res = "binary")
    /\ [][(CascadeFails /\ trigger = "binary")
            => /\ pc' = "raised"
               /\ result'.error.type = "FetchError"
               /\ gets' = gets]_vars
    /\ [][(CascadeFails /\ trigger = "status")
            => IF attempt < cfg.max_retries
               THEN pc' = "get" /\ attempt' = attempt + 1
               ELSE pc' = "raised" /\ result'.error.type = "FetchError"]_vars

\* the second cascade of one call: the first direct GET was answered with a
\* fallback status and its cascade failed, and so was the second GET
C35_Witness ==
    /\ pc = "jina"
    /\ trigger = "status"
    /\ attempt = 1
    /\ gets = 2
    /\ fallback_failed


\* this step is fetch_article answering from a cache
CacheHitStep == pc \in Terminal /\ ncalls' = ncalls + 1 /\ pc' = "returned"

\* this step is fetch_article returning what an outgoing call gave it
NetworkReturnStep == pc \notin Terminal /\ pc' = "returned"

\* cache namespace after is namespace before with one more key, u
AddsEntry(before, after, u) ==
    /\ u \notin DOMAIN before
    /\ DOMAIN after = DOMAIN before \cup {u}
    /\ \A k \in DOMAIN before : after[k] = before[k]

\* C38: no URL is a key of both cache namespaces; html from a direct GET is
\* returned and stored as "html", markdown from a provider as "markdown"; a
\* cache hit reports the format of the namespace it read, and reads the HTML
\* namespace when the URL is there.
C38_NamespacesDisjointFormatsKept ==
    /\ [](/\ DOMAIN CACHE_HTML \cap DOMAIN CACHE_MARKDOWN = {}
          /\ pc = "returned"
               => /\ outcome.content = result.content
                  /\ outcome.format \in {"html", "markdown"}
                  /\ outcome.strategy \in {"httpx", "httpx-cache"}
                        <=> outcome.format = "html")
    /\ [][NetworkReturnStep
            => LET last == calls'[Len(calls')]
               IN /\ last.op \in {"GET", "SIBLING_GET"}
                     => /\ outcome'.format = "html"
                        /\ outcome'.content = last.text
                        /\ CACHE_MARKDOWN' = CACHE_MARKDOWN
                  /\ last.op \in {"URLTOMD", "JINA"}
                     => /\ outcome'.format = "markdown"
                        /\ CACHE_HTML' = CACHE_HTML]_vars
    /\ [][CacheHitStep
            => /\ UNCHANGED <<CACHE_HTML, CACHE_MARKDOWN>>
               /\ IF url' \in DOMAIN CACHE_HTML
                  THEN /\ outcome'.format = "html"
                       /\ outcome'.content = CACHE_HTML[url']
                  ELSE /\ outcome'.format = "markdown"
                       /\ outcome'.content = CACHE_MARKDOWN[url']]_vars

\* a hit in the markdown namespace
C38_Witness ==
    /\ pc = "returned"
    /\ ncalls = 2
    /\ outcome.strategy = "url-to-md-cache"
    /\ url \in DOMAIN CACHE_MARKDOWN
    /\ url \notin DOMAIN CACHE_HTML

\* a step of a fetch_article call, from its entry to its end
FetchStep == ncalls' = ncalls + 1 \/ pc \notin Terminal

\* C39: a fetch_article call changes a cache only on success with caching
\* enabled: a call that raises leaves both namespaces as they were, a call
\* with allow_cache=False reads and writes neither and always goes to the
\* network, and a successful call that caches what it fetched adds exactly
\* one entry, for its URL, to exactly one namespace (a call answered from a
\* cache has nothing to store and leaves both as they were).
C39_CacheChangedOnlyByNetworkSuccess ==
    /\ [][(NetworkReturnStep /\ cfg.allow_cache)
            => \/ /\ AddsEntry(CACHE_HTML, CACHE_HTML', url)
                  /\ CACHE_HTML'[url] = result'.content
                  /\ CACHE_MARKDOWN' = CACHE_MARKDOWN
               \/ /\ AddsEntry(CACHE_MARKDOWN, CACHE_MARKDOWN', url)
                  /\ CACHE_MARKDOWN'[url] = result'.content
                  /\ CACHE_HTML' = CACHE_HTML]_vars
    /\ [][(FetchStep /\ ~(NetworkReturnStep /\ cfg.allow_cache))
            => UNCHANGED <<CACHE_HTML, CACHE_MARKDOWN>>]_vars
    /\ [][(ncalls' = ncalls + 1 /\ ~cfg'.allow_cache) => pc' = "get"]_vars
    /\ [](~cfg.allow_cache /\ pc = "returned"
            => outcome.strategy \in {"httpx", "url-to-md", "jina"})

\* a call without caching for a URL the HTML namespace holds has gone to the
\* network, got other content, and the namespace still holds the old content
C39_Witness ==
    /\ pc = "returned"
    /\ ~cfg.allow_cache
    /\ url \in DOMAIN CACHE_HTML
    /\ CACHE_HTML[url] # result.content
    /\ outcome.strategy = "httpx"


\* C32 as stated: no URL gets a second FetchOutcome (every pool thread works
\* on one link, and the links of a run have different URLs)
C32_Original == \A t \in Threads : ~refetched[t]

\* C32: the run calls fetch_article once per link, which creates at most one
\* FetchOutcome; the refetch of a rejected html article creates a second one
\* for the same URL, fetched from a markdown provider and not from a cache,
\* and there is no third: at most two FetchOutcomes per URL.
C32_AtMostTwoOutcomesPerUrl ==
    /\ [](/\ recorded <= Cardinality(Threads)
                           + Cardinality({t \in Threads : refetched[t]})
          /\ \A t \in Threads :
               refetched[t] => tstrategy[t] \in {"url-to-md", "jina"})
    /\ [][\A t \in Threads :
            /\ refetched[t] => refetched'[t] /\ tstrategy'[t] = tstrategy[t]
            /\ (~refetched[t] /\ refetched'[t])
                 => /\ tstrategy[t] \in {"httpx", "httpx-cache"}
                    /\ recorded' = recorded + 1]_vars

\* every thread got an outcome from fetch_article and one of them a second
\* one from the refetch
C32_Witness ==
    /\ \A t \in Threads : tpc[t] = "done"
    /\ recorded = Cardinality(Threads) + 1
    /\ \E t \in Threads : refetched[t] /\ tstrategy[t] = "jina"


\* the content the worker judged first was rejected
Rejected(in) ==
    /\ ~IsBlank(in.content)
    /\ \/ WordCount(strip_cruft(in.content)) < 100
       \/ check_content_quality(strip_cruft(in.content)).is_failure

\* C36: an html article whose stripped content is rejected is refetched
\* exactly once, from the providers, with the markdown cache neither read nor
\* written; the article goes on to summarization iff the content finally kept
\* has at least 100 words and passes the classifier; a failed refetch records
\* the reason of the first rejection; a markdown article is never refetched.
C36_OneUncachedRefetch ==
    /\ r_refetches <= 1
    /\ r_in # NotCalled => r_cache = r_in[1].cache
    /\ r_pc = "done"
         => LET in == r_in[1]
                passed == r_result[1].article_data # None
            IN /\ (in.format = "html" /\ Rejected(in))
                    => r_refetches = 1 /\ r_network
               /\ in.format = "markdown" => r_refetches = 0
               /\ passed <=> /\ WordCount(r_kept) >= 100
                             /\ ~check_content_quality(r_kept).is_failure
               /\ passed => r_result[1].article_data[1].content = r_kept
               /\ (in.format = "html" /\ Rejected(in) /\ in.fallback.raised)
                    => r_result[1].failure =
                         Some(Failure(LinkUrl(1),
                                      RetryReason(strip_cruft(in.content))))

\* a short html article whose URL another worker has put in the markdown
\* cache was refetched from the providers and accepted with their markdown
C36_Witness ==
    /\ r_pc = "done"
    /\ r_in[1].format = "html"
    /\ r_in[1].content = <<"text">>
    /\ LinkUrl(1) \in DOMAIN r_cache
    /\ r_refetches = 1
    /\ r_network
    /\ r_result[1].article_data = Some(ArticleData(LinkUrl(1), <<"p100">>))


\* C33: get_last_fetch_outcome() describes the most recent fetch_article
\* call of the thread: after a call that returned content c its content is c,
\* and after a call that raised it does not still describe an earlier call.
C33_OutcomeOfLatestCall ==
    /\ pc = "returned" => outcome.content = result.content
    /\ pc = "raised" => outcome = NoOutcome


====
